---- MODULE Spec2Model ----
(***************************************************************************)
(* Model of the trading bot's scheduler (src/bot/loop/scheduler.ts), its   *)
(* state store (src/bot/storage/state.ts), the portfolio manager           *)
(* (src/bot/loop/portfolio-manager.ts) and the emergency-stop handler of   *)
(* the control API.                                                        *)
(*                                                                         *)
(* JavaScript runs one callback at a time: the code between two awaits of  *)
(* external I/O is one atomic step.  Every action below is one such        *)
(* segment.  Consecutive awaits whose intermediate code touches only       *)
(* locals are merged into one step.                                        *)
(*                                                                         *)
(* Numbers are exact rationals <<n, d>> (d > 0, lowest terms); floating    *)
(* point rounding of the JavaScript doubles is not modelled.               *)
(***************************************************************************)
EXTENDS Integers, Sequences, FiniteSets, TLC

\* ------------------------------------------------------------ rationals

RECURSIVE Gcd(_, _)
Gcd(a, b) == IF b = 0 THEN a ELSE Gcd(b, a % b)

Abs(x) == IF x < 0 THEN -x ELSE x

RNorm(n, d) ==
  LET s == IF d < 0 THEN -1 ELSE 1
      g == Gcd(Abs(n), Abs(d))
  IN  <<(s * n) \div g, (s * d) \div g>>

R(i) == <<i, 1>>
RZero == <<0, 1>>
RAdd(x, y) == RNorm(x[1] * y[2] + y[1] * x[2], x[2] * y[2])
RNeg(x) == <<-x[1], x[2]>>
RSub(x, y) == RAdd(x, RNeg(y))
RMul(x, y) == RNorm(x[1] * y[1], x[2] * y[2])
\* Division by a non-zero rational (callers guard the zero case).
RDiv(x, y) == RNorm(x[1] * y[2], x[2] * y[1])
RLt(x, y) == x[1] * y[2] < y[1] * x[2]
RLe(x, y) == x[1] * y[2] <= y[1] * x[2]
RMin(x, y) == IF RLt(y, x) THEN y ELSE x

\* ------------------------------------------------------------ constants

\* BotConfigSchema defaults (config.ts) and the scheduler's literals.
MaxTradeUsd == 20
DailyLossLimitUsd == 10
ConfidenceThreshold == 70
SchemaMaxSizeUsd == 100
MaxPositions == 5
PMMaxPositions == 5
PMMaxTradeUsd == 20
BreakerThreshold == 3
CooldownMinutes == 30

\* Bounds of the model.
MaxLoops == 2      \* runLoop invocations in flight at once, timer ticks overtaking
MaxRounds == 1     \* runLoop invocations in flight at once, each over before the next tick
MaxPMs == 1        \* runPortfolioManager invocations in flight at once
MaxFills == 2      \* executed trades in one behaviour
MaxFillsBothCycles == 3  \* executed trades in one behaviour of both cycles over six symbols
MaxRecs == 2       \* recommendations in one oracle reply
MaxClock == 2      \* clock steps in one behaviour
MaxDay == 1        \* date changes in one behaviour
ClockStepMinutes == 20
MaxCalls == 3      \* calls of the state store's functions in one behaviour
MaxSeries == 3     \* close prices in one series
MaxPeriod == 3     \* the longest period an indicator is called with

NoPair == "-"

VARIABLES
  disk,                \* logs/bot-state.json: [file, data], file "json", "missing"
                       \* or "corrupt" (JSON.parse throws)
  running,             \* Scheduler.running
  intervalId,          \* Scheduler.intervalId: TRUE when the interval is registered
  portfolioIntervalId, \* Scheduler.portfolioIntervalId, likewise
  circuitBreakers,     \* Scheduler.circuitBreakers: symbol -> record
  tradingMode,         \* Scheduler.tradingMode
  processEnv,          \* process.env: the keys the config endpoint may write
  loops,               \* the runLoop invocations in flight: slot -> frame
  pms,                 \* the runPortfolioManager invocations in flight: slot -> frame
  market,              \* what the oracle may name (symbols, amounts), what the
                       \* exchange may quote (prices), what ev keeps (logChecks)
  now,                 \* Date.now(), minutes
  today,               \* new Date().toISOString().split('T')[0], as a day number
  fills,               \* executed trades so far (bounds the behaviour)
  restUntil,           \* history: symbol -> the time 30 minutes after the catch block
                       \* last counted its third failure in a row (0: never)
  ev                   \* history: the last step, what it did

vars == <<disk, running, intervalId, portfolioIntervalId, circuitBreakers,
          tradingMode, processEnv, loops, pms, market, now, today, fills, restUntil,
          ev>>

\* ------------------------------------------------------------ state store

\* createDefaultState with the emergency stop set.
createDefaultStateStopped(day) ==
  [positions |-> <<>>, cumulativePnl |-> RZero, dailyPnl |-> RZero,
   dailyLossCount |-> 0, lastDailyReset |-> day, emergencyStop |-> TRUE]

createDefaultState(day) ==
  [positions |-> <<>>, cumulativePnl |-> RZero, dailyPnl |-> RZero,
   dailyLossCount |-> 0, lastDailyReset |-> day, emergencyStop |-> FALSE]

checkDailyReset(state, day) ==
  IF state.lastDailyReset # day
    THEN [state EXCEPT !.dailyPnl = RZero, !.dailyLossCount = 0,
                       !.lastDailyReset = day]
    ELSE state

\* No state file: existsSync(STATE_FILE) is false.
NoFile == [file |-> "missing", data |-> createDefaultState(0)]

\* A state file that JSON.parse rejects.
CorruptFile == [file |-> "corrupt", data |-> createDefaultState(0)]

\* loadState(): the file as parsed, after checkDailyReset; a default state when
\* the file is missing or when reading or parsing it throws.  The reset is made
\* on the returned copy only.
loadState(file, day) ==
  IF file.file = "json" THEN checkDailyReset(file.data, day)
  ELSE createDefaultState(day)

\* saveState(state): the file's new content.
saveState(state) == [file |-> "json", data |-> state]

symbolsOf(positions) == {positions[i].symbol : i \in 1..Len(positions)}

\* positions.find(p => p.symbol === symbol): the index of the first match, 0 if none.
findIndex(positions, symbol) ==
  IF symbol \in symbolsOf(positions)
    THEN CHOOSE i \in 1..Len(positions) :
           /\ positions[i].symbol = symbol
           /\ \A j \in 1..(i - 1) : positions[j].symbol # symbol
    ELSE 0

\* positions.filter(p => p.symbol !== symbol)
RECURSIVE filterOut(_, _)
filterOut(positions, symbol) ==
  IF positions = <<>> THEN <<>>
  ELSE IF Head(positions).symbol = symbol THEN filterOut(Tail(positions), symbol)
  ELSE <<Head(positions)>> \o filterOut(Tail(positions), symbol)

\* updatePosition with the plain mean of the two prices for avgPrice.
updatePositionPlainMean(state, symbol, quantity, price) ==
  LET i == findIndex(state.positions, symbol) IN
  IF RLe(quantity, RZero)
    THEN [state EXCEPT !.positions = filterOut(state.positions, symbol)]
  ELSE IF i # 0
    THEN [state EXCEPT !.positions[i] =
            [symbol |-> symbol, quantity |-> RAdd(state.positions[i].quantity, quantity),
             avgPrice |-> RDiv(RAdd(state.positions[i].avgPrice, price), R(2))]]
  ELSE [state EXCEPT !.positions =
          Append(state.positions,
                 [symbol |-> symbol, quantity |-> quantity, avgPrice |-> price])]

updatePosition(state, symbol, quantity, price) ==
  LET i == findIndex(state.positions, symbol) IN
  IF RLe(quantity, RZero)
    THEN [state EXCEPT !.positions = filterOut(state.positions, symbol)]
  ELSE IF i # 0
    THEN LET existing == state.positions[i]
             totalQty == RAdd(existing.quantity, quantity)
             totalValue == RAdd(RMul(existing.quantity, existing.avgPrice),
                                RMul(quantity, price))
         IN  [state EXCEPT !.positions[i] =
                [symbol |-> symbol, quantity |-> totalQty,
                 avgPrice |-> RDiv(totalValue, totalQty)]]
  ELSE [state EXCEPT !.positions =
          Append(state.positions,
                 [symbol |-> symbol, quantity |-> quantity, avgPrice |-> price])]

recordTradePnl(state, pnl) ==
  [state EXCEPT !.cumulativePnl = RAdd(state.cumulativePnl, pnl),
                !.dailyPnl = RAdd(state.dailyPnl, pnl),
                !.dailyLossCount = IF RLt(pnl, RZero) THEN @ + 1 ELSE @]

\* setEmergencyStop leaving the flag as loaded.
setEmergencyStopKeepsFlag(state, stopFlag) == state

setEmergencyStop(state, stopFlag) == [state EXCEPT !.emergencyStop = stopFlag]


\* ------------------------------------------------------------ decision engine

Symbols == {"BTCUSDT", "ETHUSDT", "SOLUSDT", "XRPUSDT", "ADAUSDT", "DOTUSDT"}

HoldDecision(confidence) ==
  [action |-> "HOLD", confidence |-> confidence, size_usd |-> RZero]

\* TradingDecisionSchema: action in the enum, 0 <= confidence <= 100,
\* 0 <= size_usd <= 100.
TradingDecisionSchema(obj) ==
  /\ obj.action \in {"BUY", "SELL", "HOLD"}
  /\ obj.confidence >= 0 /\ obj.confidence <= 100
  /\ RLe(RZero, obj.size_usd) /\ RLe(obj.size_usd, R(SchemaMaxSizeUsd))

\* An oracle reply to the decision prompt: text without a JSON object
\* ("nojson"), or text holding the object obj.
OracleObjects ==
  { [action |-> "BUY", confidence |-> 80, size_usd |-> R(10)],
    [action |-> "BUY", confidence |-> 60, size_usd |-> R(10)],
    [action |-> "SELL", confidence |-> 80, size_usd |-> R(50)],
    [action |-> "HOLD", confidence |-> 50, size_usd |-> RZero],
    [action |-> "HOLD", confidence |-> 50, size_usd |-> R(10)],
    [action |-> "BUY", confidence |-> 80, size_usd |-> R(150)],
    [action |-> "WAIT", confidence |-> 80, size_usd |-> R(10)] }

OracleReplies ==
  {[kind |-> "nojson", obj |-> HoldDecision(0)]}
  \cup {[kind |-> "json", obj |-> o] : o \in OracleObjects}

\* parseDecision without the schema: the object as the oracle wrote it.
parseDecisionUnchecked(reply) ==
  IF reply.kind = "nojson" THEN HoldDecision(0) ELSE reply.obj

\* DecisionEngine.parseDecision: the regex finds no object, JSON.parse or the
\* schema throws: HOLD with confidence 0.
parseDecision(reply) ==
  IF reply.kind = "nojson" THEN HoldDecision(0)
  ELSE IF TradingDecisionSchema(reply.obj) THEN reply.obj
  ELSE HoldDecision(0)

\* The reflection pass: "error" is callLlm throwing, which selfReflect does not
\* catch; the other replies give a decision.
Reviews == {"approved", "disapproved", "nojson", "error"}

selfReflect(decision, review) ==
  IF review = "disapproved" THEN HoldDecision(decision.confidence) ELSE decision

\* DecisionEngine.evaluatePair: threw is TRUE when fetchMarketData or an oracle
\* call throws.
engineEvaluatePair(fetchOk, reply, review) ==
  LET validated == parseDecision(reply)
      reflects == validated.action # "HOLD"
                  /\ validated.confidence >= ConfidenceThreshold
  IN  [threw |-> ~fetchOk \/ (reflects /\ review = "error"),
       decision |-> IF reflects THEN selfReflect(validated, review) ELSE validated]

\* ------------------------------------------------------------ safety gates

\* circuitBreakers.get(pair) of a pair without a record: the gate and the catch
\* block both treat it as { errors: 0, skipUntil: 0 }.
NoBreaker == [errors |-> 0, skipUntil |-> 0]

\* The gates at the head of Scheduler.evaluatePair, in order.
evaluatePairGate(state, breaker, time) ==
  IF state.emergencyStop THEN "emergencyStop"
  ELSE IF RLt(state.dailyPnl, R(-DailyLossLimitUsd)) THEN "dailyLoss"
  ELSE IF time < breaker.skipUntil THEN "circuitBreaker"
  ELSE "pass"

\* pair.replace('USDT', '')
assetOf ==
  [y \in Symbols |->
     CASE y = "BTCUSDT" -> "BTC" [] y = "ETHUSDT" -> "ETH" [] y = "SOLUSDT" -> "SOL"
       [] y = "XRPUSDT" -> "XRP" [] y = "ADAUSDT" -> "ADA" [] y = "DOTUSDT" -> "DOT"]

\* What the exchange answers to checkPositionLimit about a pair: the account
\* fetch throws ("error"), or it returns balances (amount is free + locked,
\* priced tells whether the ticker of the pricing loop answered, price what it
\* answered) and the pair's own ticker then answers or throws.
Balance(asset, amount, priced, price) ==
  [asset |-> asset, amount |-> amount, priced |-> priced, price |-> price]

BalanceSheets(pair) ==
  LET asset == assetOf[pair]
      sheet(balances, kind, price) ==
        [kind |-> "ok", balances |-> balances,
         ticker |-> [kind |-> kind, price |-> price]]
  IN  {[kind |-> "error", balances |-> <<>>, ticker |-> [kind |-> "ok", price |-> RZero]],
       sheet(<<Balance("USDT", R(100), TRUE, R(1))>>, "ok", R(10)),
       sheet(<<Balance("USDT", RZero, TRUE, R(1)), Balance(asset, R(1), TRUE, R(10))>>,
             "ok", R(10)),
       sheet(<<Balance("USDT", R(10), TRUE, R(1))>>, "ok", R(10)),
       sheet(<<Balance("USDT", R(100), TRUE, R(1)), Balance("BNB", R(5), FALSE, RZero)>>,
             "ok", R(10)),
       sheet(<<Balance(asset, R(1), TRUE, R(10))>>, "error", RZero),
       sheet(<<Balance("USDT", R(10), TRUE, R(1)), Balance(asset, R(1), FALSE, RZero)>>,
             "ok", R(10)),
       sheet(<<Balance("USDT", R(30), TRUE, R(1)), Balance(asset, R(1), TRUE, R(10))>>,
             "ok", R(10))}

\* The pricing loop of checkPositionLimit: USDT at its amount, every other
\* asset at its ticker price, an asset whose ticker throws skipped.
RECURSIVE totalPortfolioValue(_)
totalPortfolioValue(balances) ==
  IF balances = <<>> THEN RZero
  ELSE LET balance == Head(balances)
           rest == totalPortfolioValue(Tail(balances))
       IN  IF RLe(balance.amount, RZero) THEN rest
           ELSE IF balance.asset = "USDT" THEN RAdd(balance.amount, rest)
           ELSE IF balance.priced THEN RAdd(RMul(balance.amount, balance.price), rest)
           ELSE rest

\* What checkPositionLimit has when it computes the percentage: kind is
\* "error" when the account fetch or the pair's own ticker threw, else total is
\* totalPortfolioValue and asset is currentAssetValue.
accountOf(sheet, pair) ==
  LET held(b) == RLt(RZero, b.amount)
      balances == SelectSeq(sheet.balances, held)
      own(b) == b.asset = assetOf[pair]
      assetBalance == SelectSeq(balances, own)
      currentAssetAmount == IF assetBalance = <<>> THEN RZero ELSE assetBalance[1].amount
      failed == [kind |-> "error", total |-> RZero, asset |-> RZero]
  IN  IF sheet.kind = "error" THEN failed
      ELSE IF RLt(RZero, currentAssetAmount) /\ sheet.ticker.kind = "error" THEN failed
      ELSE [kind |-> "ok", total |-> totalPortfolioValue(balances),
            asset |-> IF RLt(RZero, currentAssetAmount)
                        THEN RMul(currentAssetAmount, sheet.ticker.price)
                        ELSE RZero]

\* checkPositionLimit: account is "error" when an exchange call of the check
\* throws, else the priced total of the balances and the asset's current value.
AccountsOf ==
  [pair \in Symbols |-> {accountOf(sheet, pair) : sheet \in BalanceSheets(pair)}]

Accounts(pair) == AccountsOf[pair]

\* checkPositionLimit rejecting a BUY that brings the asset to 50% exactly.
checkPositionLimitFromHalf(sizeUsd, action, account) ==
  IF action = "SELL" THEN TRUE
  ELSE IF account.kind = "error" THEN TRUE
  ELSE LET postTradeValue == RAdd(account.total, sizeUsd)
           postTradeAssetValue == RAdd(account.asset, sizeUsd)
       IN  RLt(RMul(R(100), postTradeAssetValue), RMul(R(50), postTradeValue))

checkPositionLimit(sizeUsd, action, account) ==
  IF action = "SELL" THEN TRUE
  ELSE IF account.kind = "error" THEN TRUE
  ELSE LET postTradeValue == RAdd(account.total, sizeUsd)
           postTradeAssetValue == RAdd(account.asset, sizeUsd)
       IN  ~RLt(RMul(R(50), postTradeValue), RMul(R(100), postTradeAssetValue))

\* The catch block setting skipUntil on the third error only.
breakerOnErrorTripsOnce(breaker, time) ==
  LET errors == breaker.errors + 1 IN
  [errors |-> errors,
   skipUntil |-> IF errors = BreakerThreshold
                   THEN time + CooldownMinutes ELSE breaker.skipUntil]

\* The catch block of Scheduler.evaluatePair.
breakerOnError(breaker, time) ==
  LET errors == breaker.errors + 1 IN
  [errors |-> errors,
   skipUntil |-> IF errors >= BreakerThreshold
                   THEN time + CooldownMinutes ELSE breaker.skipUntil]

breakerOnSuccess == [errors |-> 0, skipUntil |-> 0]


\* ------------------------------------------------------------ trade executor

TradingModes == {"paper", "live"}

\* Math.floor(Math.random() * 1_000_000) may be 0; an exchange order id is not.
OrderIds == {0, 7}

\* Number.toFixed(2) followed by parseFloat, for x >= 0.
ToFixed2(x) == RNorm((2 * 100 * x[1] + x[2]) \div (2 * x[2]), 100)

\* executeTrade reporting a fill although the exchange call threw.
executeTradeIgnoresError(mode, decision, call) ==
  [executed |-> TRUE, orderId |-> call.orderId,
   avgPrice |-> IF mode = "paper" THEN ToFixed2(call.price) ELSE call.price,
   error |-> FALSE]

\* Scheduler.executeTrade: call is "error" when the price fetch (paper) or the
\* order placement throws, else the price and order id obtained.
executeTrade(mode, decision, call) ==
  IF call.kind = "error"
    THEN [executed |-> FALSE, orderId |-> 0, avgPrice |-> RZero, error |-> TRUE]
    ELSE [executed |-> TRUE, orderId |-> call.orderId,
          avgPrice |-> IF mode = "paper" THEN ToFixed2(call.price) ELSE call.price,
          error |-> FALSE]

\* executeTrade sending an order whatever the trading mode.
executorCallAlwaysOrders(mode) == "POST /v3/order"

\* The one exchange request of Scheduler.executeTrade: the price ticker in paper
\* mode, the order placement of the trade tool otherwise.
executorCall(mode) ==
  IF mode = "paper" THEN "GET /v3/ticker/price" ELSE "POST /v3/order"

ExchangeCalls(prices) ==
  {[kind |-> "error", price |-> RZero, orderId |-> 0]}
  \cup {[kind |-> "ok", price |-> p, orderId |-> o] : p \in prices, o \in OrderIds}

\* evaluatePair's test of the TradeResult before it records the trade.
fastTradeRecorded(result) == result.executed /\ result.orderId # 0

\* Lines 291-316 of Scheduler.evaluatePair: the state the fast cycle saves after
\* an executed trade.
fastTradeState(state, pair, decision, price) ==
  LET quantity == RDiv(decision.size_usd, price)
      i == findIndex(state.positions, pair)
      tradePnl ==
        IF decision.action = "SELL" /\ i # 0
           /\ RLe(quantity, state.positions[i].quantity)
          THEN RMul(RSub(price, state.positions[i].avgPrice), quantity)
          ELSE RZero
      moved == IF decision.action = "BUY"
                 THEN updatePosition(state, pair, quantity, price)
                 ELSE updatePosition(state, pair, RNeg(quantity), price)
  IN  recordTradePnl(moved, tradePnl)

\* ------------------------------------------------------------ fast cycle

NoDecision == HoldDecision(0)

IdleLoop ==
  [pc |-> "idle", pairs |-> <<>>, pair |-> NoPair,
   state |-> createDefaultState(0), decision |-> NoDecision]

\* The for loop of runLoop from the pair at the head of pairs, up to the first
\* await of external I/O: each evaluatePair that a gate skips returns at once.
\* frame is the invocation's frame at that await (idle when the loop ended),
\* skips the <<pair, gate>> skipped on the way.
RECURSIVE runLoopFrom(_, _, _, _, _, _)
runLoopFrom(pairs, run, file, day, time, breakers) ==
  IF pairs = <<>> \/ ~run THEN [frame |-> IdleLoop, skips |-> {}]
  ELSE LET pair == Head(pairs)
           state == loadState(file, day)
           gate == evaluatePairGate(state, breakers[pair], time)
       IN  IF gate = "pass"
             THEN [frame |-> [pc |-> "decide", pairs |-> Tail(pairs), pair |-> pair,
                              state |-> state, decision |-> NoDecision],
                   skips |-> {}]
             ELSE LET rest == runLoopFrom(Tail(pairs), run, file, day, time, breakers)
                  IN  [frame |-> rest.frame,
                       skips |-> rest.skips \cup {<<pair, gate>>}]

heldPairs(state) == [i \in 1..Len(state.positions) |-> state.positions[i].symbol]

\* runLoop(): from its call to its first await.
runLoop(run, file, day, time, breakers) ==
  runLoopFrom(heldPairs(loadState(file, day)), run, file, day, time, breakers)

FreeLoops == {l \in DOMAIN loops : loops[l].pc = "idle"}
FreePMs == {m \in DOMAIN pms : pms[m].pc = "idle"}
Lowest(S) == CHOOSE x \in S : \A y \in S : x <= y

persistedStop == disk.file = "json" /\ disk.data.emergencyStop

\* ev: the operation of the last step (op), the cycle or caller it belongs to
\* (by), the symbol it is about, its result, the size in USD of the trade the
\* executor was called with and the avgPrice of the TradeResult it returned,
\* the confidence of the decision the engine returned,
\* the exchange request the executor sent in it, the emergencyStop field of the
\* API's response in it, whether the exchange call of the volatility check or
\* of the position-limit check failed in it, the <<pair, gate>> the fast
\* cycle skipped in it, the BUY symbols
\* parseRecommendations dropped in it and the entries it appended to
\* logs/portfolio-recommendations.jsonl.
Event(op, by, sym) ==
  [op |-> op, by |-> by, sym |-> sym, result |-> "", size |-> RZero, price |-> RZero,
   confidence |-> 0, call |-> "", reply |-> "", checkFailed |-> FALSE, skips |-> {},
   dropped |-> {}, logged |-> <<>>]


\* ------------------------------------------------------------ portfolio manager

\* What the oracle may put in one entry of its reply; amount 0 stands for a
\* missing amount.
RawRecs(universe, amounts) ==
  { [symbol |-> y, action |-> a, amount |-> R(z)] :
      y \in universe \cup {"USDT"}, a \in {"BUY", "SELL", "HOLD"}, z \in amounts }

RECURSIVE SeqsUpTo(_, _)
SeqsUpTo(S, n) ==
  IF n = 0 THEN {<<>>}
  ELSE SeqsUpTo(S, n - 1)
       \cup {Append(q, x) : q \in {r \in SeqsUpTo(S, n - 1) : Len(r) = n - 1}, x \in S}

\* PortfolioManager.parseRecommendations over the parsed array; dropped collects
\* the BUY entries the max-positions test discards.
RECURSIVE parseRecommendations(_, _)
parseRecommendations(parsed, currentPositions) ==
  IF parsed = <<>> THEN [recs |-> <<>>, dropped |-> {}]
  ELSE LET rec == Head(parsed)
           rest == parseRecommendations(Tail(parsed), currentPositions)
           currentSymbols == symbolsOf(currentPositions)
       IN  IF rec.action = "HOLD" THEN rest
           ELSE IF rec.symbol = "" \/ rec.symbol = "USDT" THEN rest
           ELSE IF rec.action = "BUY" /\ Cardinality(currentSymbols) >= PMMaxPositions
             THEN [recs |-> rest.recs, dropped |-> rest.dropped \cup {rec.symbol}]
           ELSE [recs |-> <<[symbol |-> rec.symbol, action |-> rec.action,
                             amountUsd |-> RMin(IF rec.amount = RZero
                                                  THEN R(PMMaxTradeUsd) ELSE rec.amount,
                                                R(PMMaxTradeUsd))]>> \o rest.recs,
                 dropped |-> rest.dropped]

NoRec == [symbol |-> NoPair, action |-> "HOLD", amountUsd |-> RZero]

IdlePM ==
  [pc |-> "idle", recs |-> <<>>, rec |-> NoRec, state |-> createDefaultState(0),
   positions |-> <<>>]

logRejectedRecommendation(symbol, action, amountUsd, reason) ==
  [symbol |-> symbol, action |-> action, amountUsd |-> amountUsd,
   executed |-> FALSE, reason |-> reason]

logExecutedRecommendation(symbol, action, amountUsd) ==
  [symbol |-> symbol, action |-> action, amountUsd |-> amountUsd,
   executed |-> TRUE, reason |-> ""]

\* The head of executePortfolioBuy: TRUE when the position limit rejects the
\* recommendation.
buyLimitReached(state) == Len(state.positions) >= MaxPositions

\* The for loop of runPortfolioManager from the recommendation at the head of
\* recs, up to the first await of executePortfolioSell / executePortfolioBuy.
RECURSIVE runPortfolioFrom(_, _, _, _)
runPortfolioFrom(recs, run, file, day) ==
  IF recs = <<>> \/ ~run THEN [frame |-> IdlePM, logged |-> <<>>]
  ELSE LET rec == Head(recs)
           state == loadState(file, day)
           rest == runPortfolioFrom(Tail(recs), run, file, day)
           pending == [frame |-> [pc |-> "trade", recs |-> Tail(recs), rec |-> rec,
                                  state |-> state, positions |-> <<>>],
                       logged |-> <<>>]
       IN  IF rec.action = "SELL"
             THEN IF findIndex(state.positions, rec.symbol) = 0
                    THEN [frame |-> rest.frame,
                          logged |-> <<logRejectedRecommendation(
                                         rec.symbol, "SELL", RZero, "No position held")>>
                                     \o rest.logged]
                    ELSE pending
           ELSE IF rec.action = "BUY"
             THEN IF buyLimitReached(state)
                    THEN [frame |-> rest.frame,
                          logged |-> <<logRejectedRecommendation(
                                         rec.symbol, "BUY", rec.amountUsd,
                                         "Max positions (5) reached")>>
                                     \o rest.logged]
                    ELSE pending
           ELSE rest

\* executePortfolioSell recording the sale whatever the TradeResult says.
portfolioSellRecordedAlways(result) == TRUE

\* executePortfolioSell's and executePortfolioBuy's tests of the TradeResult
\* before they record the trade.
portfolioSellRecorded(result) == result.executed
portfolioBuyRecorded(result) == result.executed /\ result.avgPrice # RZero

\* executePortfolioSell after an executed trade: the state it saves.
portfolioSellState(state, symbol, price) ==
  LET position == state.positions[findIndex(state.positions, symbol)]
      value == RMul(position.quantity, price)
  IN  recordTradePnl(
        [state EXCEPT !.positions = filterOut(state.positions, symbol)],
        RSub(value, RMul(position.avgPrice, position.quantity)))

\* executePortfolioBuy after an executed trade: the state it saves.
portfolioBuyState(state, rec, price, avgPrice) ==
  updatePosition(state, rec.symbol, RDiv(rec.amountUsd, price), avgPrice)

\* runPortfolioManager(): from its call to the await inside consult().
runPortfolioManager(run, file, day) ==
  IF ~run THEN IdlePM
  ELSE IF loadState(file, day).emergencyStop THEN IdlePM
  ELSE [IdlePM EXCEPT !.pc = "consult", !.positions = loadState(file, day).positions]


\* ------------------------------------------------------------ scheduler

\* checkVolatility: klines is "error" when the fetch throws, "short" when fewer
\* than two candles came back, else the last two closes.
Klines ==
  {[kind |-> "error", prev |-> 1, cur |-> 1], [kind |-> "short", prev |-> 1, cur |-> 1],
   [kind |-> "ok", prev |-> 100, cur |-> 104], [kind |-> "ok", prev |-> 100, cur |-> 94]}

\* checkVolatility reporting an unsafe market when its fetch throws.
checkVolatilityFailsClosed(klines) ==
  IF klines.kind = "error" THEN FALSE
  ELSE IF klines.kind # "ok" THEN TRUE
  ELSE Abs(klines.cur - klines.prev) * 100 <= 5 * klines.prev

checkVolatility(klines) ==
  IF klines.kind # "ok" THEN TRUE
  ELSE Abs(klines.cur - klines.prev) * 100 <= 5 * klines.prev

\* The body of Scheduler.start() past its running test; file is the state file
\* at the call, event the caller's entry for ev.
startFrom(file, event) ==
  LET lp == runLoop(TRUE, file, today, now, circuitBreakers)
      pm == runPortfolioManager(TRUE, file, today)
  IN  /\ lp.frame.pc # "idle" => FreeLoops # {}
      /\ pm.pc # "idle" => FreePMs # {}
      /\ running' = TRUE
      /\ intervalId' = TRUE
      /\ portfolioIntervalId' = TRUE
      /\ loops' = IF lp.frame.pc = "idle" THEN loops
                  ELSE [loops EXCEPT ![Lowest(FreeLoops)] = lp.frame]
      /\ pms' = IF pm.pc = "idle" THEN pms
                ELSE [pms EXCEPT ![Lowest(FreePMs)] = pm]
      /\ ev' = [event EXCEPT !.skips = lp.skips]

\* stop() without its second clearInterval.
stopKeepsPortfolioTimer ==
  /\ running' = FALSE
  /\ intervalId' = FALSE
  /\ UNCHANGED <<portfolioIntervalId, loops, pms>>

\* The body of Scheduler.stop() past its running test.
stopNow ==
  /\ running' = FALSE
  /\ intervalId' = FALSE
  /\ portfolioIntervalId' = FALSE
  /\ UNCHANGED <<loops, pms>>

\* start() without its running test.
startWithoutRunningTest ==
  /\ startFrom(disk, [Event("start", "scheduler", NoPair) EXCEPT !.result = "started"])
  /\ UNCHANGED <<disk, circuitBreakers, tradingMode, processEnv, market, restUntil, now, today, fills>>

\* Scheduler.start()
start ==
  /\ IF running
       THEN /\ UNCHANGED <<running, intervalId, portfolioIntervalId, loops, pms>>
            /\ ev' = [Event("start", "scheduler", NoPair) EXCEPT !.result = "noop"]
       ELSE startFrom(disk, [Event("start", "scheduler", NoPair) EXCEPT
                               !.result = "started"])
  /\ UNCHANGED <<disk, circuitBreakers, tradingMode, processEnv, market, restUntil, now, today, fills>>

\* Scheduler.stop()
stop ==
  /\ IF running
       THEN /\ stopNow
            /\ ev' = [Event("stop", "scheduler", NoPair) EXCEPT !.result = "stopped"]
       ELSE /\ UNCHANGED <<running, intervalId, portfolioIntervalId, loops, pms>>
            /\ ev' = [Event("stop", "scheduler", NoPair) EXCEPT !.result = "noop"]
  /\ UNCHANGED <<disk, circuitBreakers, tradingMode, processEnv, market, restUntil, now, today, fills>>

\* The callback of setInterval(() => this.runLoop(), intervalMs).
intervalFires ==
  LET lp == runLoop(running, disk, today, now, circuitBreakers) IN
  /\ intervalId
  /\ lp.frame.pc # "idle" => FreeLoops # {}
  /\ loops' = IF lp.frame.pc = "idle" THEN loops
              ELSE [loops EXCEPT ![Lowest(FreeLoops)] = lp.frame]
  /\ ev' = [Event("runLoop", "fast", NoPair) EXCEPT !.skips = lp.skips]
  /\ UNCHANGED <<disk, running, intervalId, portfolioIntervalId, circuitBreakers,
                 tradingMode, processEnv, pms, market, restUntil, now, today, fills>>

\* The callback of setInterval(() => this.runPortfolioManager(), 1 hour).
portfolioIntervalFires ==
  LET pm == runPortfolioManager(running, disk, today) IN
  /\ portfolioIntervalId
  /\ pm.pc # "idle" => FreePMs # {}
  /\ pms' = IF pm.pc = "idle" THEN pms ELSE [pms EXCEPT ![Lowest(FreePMs)] = pm]
  /\ ev' = [Event("runPortfolioManager", "slow", NoPair) EXCEPT
              !.result = IF pm.pc = "idle" THEN "skipped" ELSE "consulting"]
  /\ UNCHANGED <<disk, running, intervalId, portfolioIntervalId, circuitBreakers,
                 tradingMode, processEnv, loops, market, restUntil, now, today, fills>>

\* What the awaits of checkVolatility and engine.evaluatePair leave of one
\* evaluation: "volatile" (skipped), "error" (the engine threw), "hold" (no
\* trade follows) or "trade", with the decision. An "error" carries the
\* validated decision that was under review when the reflection call threw,
\* and no decision when the market data fetch threw.
decideOutcome(klines, fetchOk, reply, review) ==
  LET r == engineEvaluatePair(fetchOk, reply, review)
      d == r.decision
      checkFailed == klines.kind = "error"
  IN  IF ~checkVolatility(klines)
        THEN [outcome |-> "volatile", decision |-> NoDecision,
              checkFailed |-> checkFailed]
      ELSE IF r.threw
        THEN [outcome |-> "error",
              decision |-> IF fetchOk THEN parseDecision(reply) ELSE NoDecision,
              checkFailed |-> checkFailed]
      ELSE IF d.action # "HOLD" /\ RLt(RZero, d.size_usd)
        THEN [outcome |-> "trade", decision |-> d, checkFailed |-> checkFailed]
      ELSE [outcome |-> "hold", decision |-> d, checkFailed |-> checkFailed]

EvaluationOutcomes ==
  { decideOutcome(klines, fetchOk, reply, review) :
      klines \in Klines, fetchOk \in BOOLEAN, reply \in OracleReplies, review \in Reviews }

DecideOutcomes == {o \in EvaluationOutcomes : o.outcome # "error"}

\* The volatility skip counted as a failed evaluation.
breakerAtDecisionCountsSkip(outcome, breaker, time) ==
  IF outcome = "hold" THEN breakerOnSuccess
  ELSE IF outcome = "volatile" THEN breakerOnError(breaker, time)
  ELSE breaker

\* The symbol's circuit-breaker record when evaluatePair has its decision: a
\* HOLD runs on to the reset at the end of the try block, the volatility skip
\* returns before it, a trade is still to be executed.
breakerAtDecision(outcome, breaker, time) ==
  IF outcome = "hold" THEN breakerOnSuccess ELSE breaker

\* evaluatePair returning at the decision without awaiting the position check
\* and the executor: the round moves on while the trade is still to run.
evaluatePairDecidesAndMovesOn(l) ==
  LET f == loops[l] IN
  /\ f.pc = "decide"
  /\ \E o \in DecideOutcomes :
       LET next == runLoopFrom(f.pairs, running, disk, today, now, circuitBreakers)
       IN  /\ loops' = [loops EXCEPT ![l] = next.frame]
           /\ ev' = [Event("decide", "fast", f.pair) EXCEPT
                       !.result = o.outcome, !.confidence = o.decision.confidence,
                       !.checkFailed = market.logChecks /\ o.checkFailed,
                       !.skips = next.skips]
  /\ UNCHANGED <<disk, running, intervalId, portfolioIntervalId, circuitBreakers,
                 tradingMode, processEnv, pms, market, restUntil, now, today, fills>>

\* Scheduler.evaluatePair from the volatility check to the decision: the awaits
\* of checkVolatility and of engine.evaluatePair have returned.
evaluatePairDecides(l) ==
  LET f == loops[l] IN
  /\ f.pc = "decide"
  /\ \E o \in DecideOutcomes :
       LET breakers == [circuitBreakers EXCEPT
                          ![f.pair] = breakerAtDecision(o.outcome, @, now)]
           next == IF o.outcome = "trade"
                     THEN [frame |-> [f EXCEPT !.pc = "trade", !.decision = o.decision],
                           skips |-> {}]
                     ELSE runLoopFrom(f.pairs, running, disk, today, now, breakers)
       IN  /\ circuitBreakers' = breakers
           /\ loops' = [loops EXCEPT ![l] = next.frame]
           /\ ev' = [Event("decide", "fast", f.pair) EXCEPT
                       !.result = o.outcome, !.confidence = o.decision.confidence,
                       !.checkFailed = market.logChecks /\ o.checkFailed,
                       !.skips = next.skips]
  /\ UNCHANGED <<disk, running, intervalId, portfolioIntervalId, tradingMode, processEnv, pms,
                 market, restUntil, now, today, fills>>

\* evaluatePair without its catch block: the error rejects runLoop's promise and
\* the round ends there.
evaluatePairCatchesNothing(l) ==
  LET f == loops[l] IN
  /\ f.pc = "decide"
  /\ loops' = [loops EXCEPT ![l] = IdleLoop]
  /\ ev' = [Event("decide", "fast", f.pair) EXCEPT !.result = "error"]
  /\ UNCHANGED <<disk, running, intervalId, portfolioIntervalId, circuitBreakers,
                 tradingMode, processEnv, pms, market, restUntil, now, today, fills>>

\* The catch block of Scheduler.evaluatePair: engine.evaluatePair threw.
evaluatePairCatches(l) ==
  LET f == loops[l]
      breakers == [circuitBreakers EXCEPT
                     ![f.pair] = breakerOnError(circuitBreakers[f.pair], now)]
      next == runLoopFrom(f.pairs, running, disk, today, now, breakers)
  IN  /\ f.pc = "decide"
      /\ circuitBreakers' = breakers
      /\ loops' = [loops EXCEPT ![l] = next.frame]
      /\ restUntil' = IF breakers[f.pair].errors >= BreakerThreshold
                        THEN [restUntil EXCEPT ![f.pair] = now + CooldownMinutes]
                        ELSE restUntil
      /\ \E o \in EvaluationOutcomes :
           /\ o.outcome = "error"
           /\ ev' = [Event("decide", "fast", f.pair) EXCEPT
                       !.result = "error", !.confidence = o.decision.confidence,
                       !.checkFailed = market.logChecks /\ o.checkFailed,
                       !.skips = next.skips,
                       !.logged = <<circuitBreakers[f.pair]>>]
      /\ UNCHANGED <<disk, running, intervalId, portfolioIntervalId, tradingMode, processEnv, pms,
                     market, now, today, fills>>

\* Scheduler.evaluatePair from the position-limit check to its end: the awaits
\* of checkPositionLimit and of executeTrade have returned.
evaluatePairTrades(l) ==
  LET f == loops[l]
      d == f.decision
  IN
  /\ f.pc = "trade"
  /\ \E account \in Accounts(f.pair), call \in ExchangeCalls(market.prices) :
       LET allowed == checkPositionLimit(d.size_usd, d.action, account)
           result == executeTrade(tradingMode, d, call)
           saves == allowed /\ fastTradeRecorded(result)
           file == IF saves
                     THEN saveState(fastTradeState(f.state, f.pair, d, result.avgPrice))
                     ELSE disk
           breakers == IF allowed
                         THEN [circuitBreakers EXCEPT ![f.pair] = breakerOnSuccess]
                         ELSE circuitBreakers
           next == runLoopFrom(f.pairs, running, file, today, now, breakers)
       IN  /\ (allowed /\ result.executed) => fills < market.maxFills
           /\ disk' = file
           /\ fills' = IF allowed /\ result.executed THEN fills + 1 ELSE fills
           /\ circuitBreakers' = breakers
           /\ loops' = [loops EXCEPT ![l] = next.frame]
           /\ ev' = [Event(IF allowed THEN "trade" ELSE "limit", "fast", f.pair) EXCEPT
                       !.result = IF ~allowed THEN "rejected"
                                  ELSE IF ~result.executed THEN "failed"
                                  ELSE IF saves THEN "saved" ELSE "unsaved",
                       !.size = IF allowed THEN d.size_usd ELSE RZero,
                       !.price = IF allowed THEN result.avgPrice ELSE RZero,
                       !.call = IF allowed THEN executorCall(tradingMode) ELSE "",
                       !.checkFailed = /\ market.logChecks
                                       /\ d.action = "BUY"
                                       /\ account.kind = "error",
                       !.skips = next.skips]
  /\ UNCHANGED <<running, intervalId, portfolioIntervalId, tradingMode, processEnv, pms,
                 market, restUntil, now, today>>


\* What consult() may return with the positions it loaded: callLlm throwing or
\* a text without a parsable array gives no recommendation.
ConsultOutcomes(positions) ==
  { parseRecommendations(parsed, positions) :
      parsed \in SeqsUpTo(RawRecs(market.symbols, market.amounts), MaxRecs) }

\* PortfolioManager.consult() returns and runPortfolioManager starts on the
\* recommendations.
consultReturns(m) ==
  LET f == pms[m] IN
  /\ f.pc = "consult"
  /\ \E got \in ConsultOutcomes(f.positions) :
       LET next == runPortfolioFrom(got.recs, running, disk, today)
       IN  /\ pms' = [pms EXCEPT ![m] = next.frame]
           /\ ev' = [Event("consult", "slow", NoPair) EXCEPT
                       !.dropped = got.dropped, !.logged = next.logged]
  /\ UNCHANGED <<disk, running, intervalId, portfolioIntervalId, circuitBreakers,
                 tradingMode, processEnv, loops, market, restUntil, now, today, fills>>

\* executePortfolioSell / executePortfolioBuy from the ticker fetch to the end:
\* ticker is the price fetched first ("error" when that throws), call the
\* executor's exchange call.
portfolioTradeReturns(m) ==
  LET f == pms[m]
      rec == f.rec
  IN
  /\ f.pc = "trade"
  /\ \E ticker \in ExchangeCalls(market.prices), call \in ExchangeCalls(market.prices) :
       LET value == IF rec.action = "SELL"
                      THEN RMul(f.state.positions[findIndex(f.state.positions,
                                                            rec.symbol)].quantity,
                                ticker.price)
                      ELSE rec.amountUsd
           decision == [action |-> rec.action, confidence |-> 100, size_usd |-> value]
           result == executeTrade(tradingMode, decision, call)
           traded == ticker.kind = "ok" /\ result.executed
           saves == /\ ticker.kind = "ok"
                    /\ IF rec.action = "SELL" THEN portfolioSellRecorded(result)
                       ELSE portfolioBuyRecorded(result)
           file == IF ~saves THEN disk
                   ELSE IF rec.action = "SELL"
                     THEN saveState(portfolioSellState(f.state, rec.symbol, ticker.price))
                   ELSE saveState(portfolioBuyState(f.state, rec, ticker.price,
                                                    result.avgPrice))
           entry == IF saves
                      THEN <<logExecutedRecommendation(rec.symbol, rec.action, value)>>
                      ELSE <<>>
           next == runPortfolioFrom(f.recs, running, file, today)
       IN  /\ ticker.orderId = 0
           /\ ticker.kind = "error" => call = ticker
           /\ traded => fills < market.maxFills
           /\ disk' = file
           /\ fills' = IF traded THEN fills + 1 ELSE fills
           /\ pms' = [pms EXCEPT ![m] = next.frame]
           /\ ev' = [Event(IF ticker.kind = "ok" THEN "trade" ELSE "ticker", "slow",
                           rec.symbol) EXCEPT
                       !.result = IF ticker.kind = "error" \/ ~result.executed THEN "failed"
                                  ELSE IF saves THEN "saved" ELSE "unsaved",
                       !.size = IF ticker.kind = "ok" THEN value ELSE RZero,
                       !.price = IF ticker.kind = "ok" THEN result.avgPrice ELSE RZero,
                       !.call = IF ticker.kind = "ok" THEN executorCall(tradingMode)
                                ELSE "",
                       !.logged = entry \o next.logged]
  /\ UNCHANGED <<running, intervalId, portfolioIntervalId, circuitBreakers,
                 tradingMode, processEnv, loops, market, restUntil, now, today>>


\* An await of Scheduler.evaluatePair on an exchange or oracle request that
\* never settles: fetch is called without a signal or a timer, so the frame
\* stays at that await.
callNeverResponds(l) ==
  LET f == loops[l] IN
  /\ f.pc \in {"decide", "trade"}
  /\ loops' = [loops EXCEPT ![l] = [f EXCEPT !.pc = "hung"]]
  /\ ev' = Event("hang", "fast", f.pair)
  /\ UNCHANGED <<disk, running, intervalId, portfolioIntervalId, circuitBreakers,
                 tradingMode, processEnv, pms, market, restUntil, now, today, fills>>

\* ------------------------------------------------------------ control API

\* allowedKeys with one more key let through.
allowedKeysAndAnyOther ==
  {"BOT_PAIRS", "BOT_CHECK_INTERVAL_MS", "BOT_CONFIDENCE_THRESHOLD", "INVALID_KEY"}

\* The keys handleConfig accepts, and process.env without one of them.
allowedKeys == {"BOT_PAIRS", "BOT_CHECK_INTERVAL_MS", "BOT_CONFIDENCE_THRESHOLD"}
Unset == "undefined"

\* parseAuthHeader, as the caller's name in ev: "api" sent the configured key.
Caller(authed) == IF authed THEN "api" ELSE "anonymous"

\* handleEmergencyStop: authed is the X-API-Key test, action the body's action
\* ("status" for a body without one, an unreadable body or a GET).
handleEmergencyStop(authed, action) ==
  LET state == loadState(disk, today)
      event(result, reply) ==
        [Event("emergency-stop", Caller(authed), NoPair) EXCEPT
           !.result = result, !.reply = reply]
  IN
  /\ IF ~authed
       THEN /\ UNCHANGED <<disk, running, intervalId, portfolioIntervalId, loops, pms>>
            /\ ev' = event("401", "")
     ELSE IF action = "stop"
       THEN /\ disk' = saveState(setEmergencyStop(state, TRUE))
            /\ IF running THEN stopNow
               ELSE UNCHANGED <<running, intervalId, portfolioIntervalId, loops, pms>>
            /\ ev' = event("stop", "true")
     ELSE IF action = "start"
       THEN /\ disk' = saveState(setEmergencyStop(state, FALSE))
            /\ IF running
                 THEN /\ UNCHANGED <<running, intervalId, portfolioIntervalId, loops, pms>>
                      /\ ev' = event("start", "false")
                 ELSE startFrom(disk', event("start", "false"))
     ELSE /\ UNCHANGED <<disk, running, intervalId, portfolioIntervalId, loops, pms>>
          /\ ev' = event("status", IF state.emergencyStop THEN "true" ELSE "false")
  /\ UNCHANGED <<circuitBreakers, tradingMode, processEnv, market, restUntil, now, today,
                 fills>>

\* The request bodies of the config endpoint: "nojson" is a body req.json()
\* rejects, else the entries of the object.
ConfigBodies ==
  {[kind |-> "nojson", entries |-> {}],
   [kind |-> "json", entries |-> {}],
   [kind |-> "json", entries |-> {<<"BOT_CONFIDENCE_THRESHOLD", "60">>}],
   [kind |-> "json", entries |-> {<<"INVALID_KEY", "value">>, <<"BOT_PAIRS", "ETHUSDT">>}]}

\* handleConfig answering 200 without the X-API-Key test.
handleConfigStatusOpen(authed, method) ==
  IF method # "POST" THEN "405" ELSE "200"

\* The status handleConfig answers with.
handleConfigStatus(authed, method) ==
  IF ~authed THEN "401" ELSE IF method # "POST" THEN "405" ELSE "200"

\* The keys of process.env the model follows: the allowed ones and every key a
\* request body names.
EnvKeys == allowedKeys \cup {e[1] : e \in UNION {body.entries : body \in ConfigBodies}}

\* handleConfig: every allowed key of the body is written to process.env; ev
\* keeps the request.
handleConfig(authed, method, body) ==
  LET status == handleConfigStatus(authed, method)
      updates == IF body.kind = "nojson" THEN {} ELSE body.entries
  IN  /\ processEnv' =
           IF status # "200" THEN processEnv
           ELSE [key \in DOMAIN processEnv |->
                   IF key \in allowedKeys /\ \E e \in updates : e[1] = key
                     THEN (CHOOSE e \in updates : e[1] = key)[2]
                     ELSE processEnv[key]]
      /\ ev' = [Event("config", Caller(authed), NoPair) EXCEPT
                  !.result = status,
                  !.logged = <<[method |-> method, body |-> body]>>]
      /\ UNCHANGED <<disk, running, intervalId, portfolioIntervalId, circuitBreakers,
                     tradingMode, loops, pms, market, restUntil, now, today, fills>>

\* ------------------------------------------------------------ environment

clockAdvances ==
  /\ now < MaxClock * ClockStepMinutes
  /\ now' = now + ClockStepMinutes
  /\ ev' = Event("clock", "env", NoPair)
  /\ UNCHANGED <<disk, running, intervalId, portfolioIntervalId, circuitBreakers,
                 tradingMode, processEnv, loops, pms, market, restUntil, today, fills>>

dateChanges ==
  /\ today < MaxDay
  /\ today' = today + 1
  /\ ev' = Event("date", "env", NoPair)
  /\ UNCHANGED <<disk, running, intervalId, portfolioIntervalId, circuitBreakers,
                 tradingMode, processEnv, loops, pms, market, restUntil, now, fills>>

\* ------------------------------------------------------------ callers of the store

\* The quantities and the P&L amounts a caller passes to the state store.
StoreQuantities == {R(-1), RZero, R(1), R(2)}
StorePnls == {R(-5), R(5)}

\* A caller's loadState(), updatePosition(state, symbol, quantity, price) and
\* saveState(state), with no await between them.
callUpdatePosition ==
  /\ fills < MaxCalls
  /\ \E symbol \in market.symbols, quantity \in StoreQuantities, price \in market.prices :
       /\ disk' = saveState(updatePosition(loadState(disk, today), symbol, quantity, price))
       /\ ev' = [Event("updatePosition", "store", symbol) EXCEPT
                   !.size = quantity, !.price = price]
  /\ fills' = fills + 1
  /\ UNCHANGED <<running, intervalId, portfolioIntervalId, circuitBreakers,
                 tradingMode, processEnv, loops, pms, market, restUntil, now, today>>

\* A caller's loadState(), recordTradePnl(state, pnl) and saveState(state).
callRecordTradePnl ==
  /\ fills < MaxCalls
  /\ \E pnl \in StorePnls :
       /\ disk' = saveState(recordTradePnl(loadState(disk, today), pnl))
       /\ ev' = [Event("recordTradePnl", "store", NoPair) EXCEPT !.size = pnl]
  /\ fills' = fills + 1
  /\ UNCHANGED <<running, intervalId, portfolioIntervalId, circuitBreakers,
                 tradingMode, processEnv, loops, pms, market, restUntil, now, today>>

\* A caller's engine.evaluatePair(pair): ev keeps the oracle's two replies and
\* the decision returned ("threw" when the call rejects).
callEngineEvaluatePair ==
  /\ fills < MaxCalls
  /\ \E pair \in market.symbols, fetchOk \in BOOLEAN, reply \in OracleReplies,
        review \in Reviews :
       LET r == engineEvaluatePair(fetchOk, reply, review)
       IN  ev' = [Event("engine.evaluatePair", "fast", pair) EXCEPT
                    !.result = IF r.threw THEN "threw" ELSE r.decision.action,
                    !.size = IF r.threw THEN RZero ELSE r.decision.size_usd,
                    !.confidence = IF r.threw THEN 0 ELSE r.decision.confidence,
                    !.logged = <<[fetchOk |-> fetchOk, reply |-> reply, review |-> review]>>]
  /\ fills' = fills + 1
  /\ UNCHANGED <<disk, running, intervalId, portfolioIntervalId, circuitBreakers,
                 tradingMode, processEnv, loops, pms, market, restUntil, now, today>>

\* The orders a caller passes to checkPositionLimit.
LimitSizes == {R(10), R(50)}

\* A caller's checkPositionLimit(pair, sizeUsd, action); ev keeps the call and
\* what the exchange answered.
callCheckPositionLimit ==
  /\ fills < MaxCalls
  /\ \E pair \in market.symbols, sizeUsd \in LimitSizes, action \in {"BUY", "SELL"} :
     \E sheet \in BalanceSheets(pair) :
       LET allowed == checkPositionLimit(sizeUsd, action, accountOf(sheet, pair))
       IN  ev' = [Event("checkPositionLimit", "fast", pair) EXCEPT
                    !.result = IF allowed THEN "allowed" ELSE "rejected",
                    !.size = sizeUsd,
                    !.logged = <<[action |-> action, sheet |-> sheet]>>]
  /\ fills' = fills + 1
  /\ UNCHANGED <<disk, running, intervalId, portfolioIntervalId, circuitBreakers,
                 tradingMode, processEnv, loops, pms, market, restUntil, now, today>>

\* ------------------------------------------------------------ indicators

\* A JavaScript number of the indicators: NaN or a rational.
NaN == [nan |-> TRUE, v |-> RZero]
Num(r) == [nan |-> FALSE, v |-> r]
isNaN(x) == x.nan
\* x - y, NaN when either operand is NaN.
NumSub(x, y) == IF x.nan \/ y.nan THEN NaN ELSE Num(RSub(x.v, y.v))

RAbs(x) == IF x[1] < 0 THEN RNeg(x) ELSE x

\* prices.reduce((sum, p) => sum + p, 0)
RECURSIVE sumOf(_)
sumOf(prices) ==
  IF prices = <<>> THEN RZero ELSE RAdd(prices[1], sumOf(Tail(prices)))

\* sma with the length test turned into the mean of the values there are.
smaOfAvailable(prices, period) ==
  Num(RDiv(sumOf(prices), R(period)))

\* sma(prices, period): prices.slice(-period) is the last period values.
sma(prices, period) ==
  IF Len(prices) < period THEN NaN
  ELSE Num(RDiv(sumOf(SubSeq(prices, Len(prices) - period + 1, Len(prices))),
                R(period)))

\* The loop of ema from index i (1-based) with smoothing factor k.
RECURSIVE emaFrom(_, _, _, _)
emaFrom(prices, i, emaCurrent, k) ==
  IF i > Len(prices) THEN emaCurrent
  ELSE emaFrom(prices, i + 1,
               RAdd(RMul(prices[i], k), RMul(emaCurrent, RSub(R(1), k))), k)

\* ema(prices, period), seeded with the mean of the first period values.
ema(prices, period) ==
  IF Len(prices) < period THEN NaN
  ELSE Num(emaFrom(prices, period + 1,
                   RDiv(sumOf(SubSeq(prices, 1, period)), R(period)),
                   RDiv(R(2), R(period + 1))))

\* emaSeries(prices, period): empty when the series is short; else NaN up to
\* the seed, then at each index the average before that index's price is taken
\* in, and the final average at the last index.
emaSeries(prices, period) ==
  IF Len(prices) < period THEN <<>>
  ELSE [i \in 1..Len(prices) |->
          IF i = Len(prices) THEN ema(prices, period)
          ELSE IF i <= period THEN NaN
          ELSE ema(SubSeq(prices, 1, i - 1), period)]

\* series[i] under isNaN: an index past the end reads undefined, and
\* isNaN(undefined) is true.
seriesAt(series, i) == IF i \in DOMAIN series THEN series[i] ELSE NaN

\* The second loop of rsi: Wilder's smoothing from change i on; <<avgGain, avgLoss>>.
RECURSIVE rsiSmooth(_, _, _, _, _)
rsiSmooth(changes, i, avgGain, avgLoss, period) ==
  IF i > Len(changes) THEN <<avgGain, avgLoss>>
  ELSE LET change == changes[i]
           gain == IF RLt(RZero, change) THEN change ELSE RZero
           loss == IF RLt(change, RZero) THEN RAbs(change) ELSE RZero
       IN  rsiSmooth(changes, i + 1,
                     RDiv(RAdd(RMul(avgGain, R(period - 1)), gain), R(period)),
                     RDiv(RAdd(RMul(avgLoss, R(period - 1)), loss), R(period)),
                     period)

\* rsi(prices, period)
rsi(prices, period) ==
  IF Len(prices) < period + 1 THEN NaN
  ELSE LET changes == [i \in 1..(Len(prices) - 1) |-> RSub(prices[i + 1], prices[i])]
           gains == [i \in 1..period |->
                       IF RLt(RZero, changes[i]) THEN changes[i] ELSE RZero]
           losses == [i \in 1..period |->
                        IF RLt(RZero, changes[i]) THEN RZero ELSE RAbs(changes[i])]
           avg == rsiSmooth(changes, period + 1, RDiv(sumOf(gains), R(period)),
                            RDiv(sumOf(losses), R(period)), period)
       IN  IF avg[2] = RZero THEN Num(R(100))
           ELSE Num(RSub(R(100),
                         RDiv(R(100), RAdd(R(1), RDiv(avg[1], avg[2])))))

\* The loop of macd that collects fast - slow wherever both series have a number.
RECURSIVE macdValuesFrom(_, _, _, _)
macdValuesFrom(fastEmaSeries, slowEmaSeries, i, n) ==
  IF i > n THEN <<>>
  ELSE LET fast == seriesAt(fastEmaSeries, i)
           slow == seriesAt(slowEmaSeries, i)
           rest == macdValuesFrom(fastEmaSeries, slowEmaSeries, i + 1, n)
       IN  IF ~isNaN(fast) /\ ~isNaN(slow)
           THEN <<RSub(fast.v, slow.v)>> \o rest
           ELSE rest

\* macd(prices, fastPeriod, slowPeriod, signalPeriod)
macd(prices, fastPeriod, slowPeriod, signalPeriod) ==
  LET macdLine == NumSub(ema(prices, fastPeriod), ema(prices, slowPeriod))
      macdValues == macdValuesFrom(emaSeries(prices, fastPeriod),
                                   emaSeries(prices, slowPeriod), 1, Len(prices))
      signalLine == IF Len(macdValues) >= signalPeriod
                    THEN ema(macdValues, signalPeriod)
                    ELSE NaN
  IN  [macd |-> macdLine, signal |-> signalLine,
       histogram |-> NumSub(macdLine, signalLine)]

\* The close prices and the periods a caller passes to an indicator.
PriceSeries ==
  {[i \in DOMAIN q |-> R(q[i])] : q \in SeqsUpTo({1, 3}, MaxSeries)}

\* What a caller holds when it calls the indicators: a series, the period of
\* sma, ema and rsi (macd's fast period) and macd's slow and signal periods.
IndicatorInputs ==
  [prices : PriceSeries, period : 1..MaxPeriod, slowPeriod : 1..MaxPeriod,
   signalPeriod : 1..MaxPeriod]

\* A caller's sma, ema or rsi over its series; ev keeps the inputs and the
\* result.
callIndicator ==
  /\ fills < MaxCalls
  /\ \E name \in {"sma", "ema", "rsi"} :
       LET in == ev.logged[1]
           out == CASE name = "sma" -> sma(in.prices, in.period)
                    [] name = "ema" -> ema(in.prices, in.period)
                    [] name = "rsi" -> rsi(in.prices, in.period)
       IN  ev' = [Event(name, "", NoPair) EXCEPT
                    !.result = IF isNaN(out) THEN "NaN" ELSE "number",
                    !.size = out.v,
                    !.logged = ev.logged]
  /\ fills' = fills + 1
  /\ UNCHANGED <<disk, running, intervalId, portfolioIntervalId, circuitBreakers,
                 tradingMode, processEnv, loops, pms, market, restUntil, now, today>>

\* A caller's macd over its series; ev keeps the inputs and the lines returned.
callMacd ==
  /\ fills < MaxCalls
  /\ LET in == ev.logged[1]
         out == macd(in.prices, in.period, in.slowPeriod, in.signalPeriod)
     IN  ev' = [Event("macd", "", NoPair) EXCEPT
                  !.result = IF isNaN(out.macd) THEN "NaN" ELSE "number",
                  !.size = out.macd.v,
                  !.reply = IF isNaN(out.signal) THEN "NaN" ELSE "number",
                  !.price = out.signal.v,
                  !.logged = ev.logged]
  /\ fills' = fills + 1
  /\ UNCHANGED <<disk, running, intervalId, portfolioIntervalId, circuitBreakers,
                 tradingMode, processEnv, loops, pms, market, restUntil, now, today>>

\* ------------------------------------------------------------ specification

\* A state file left by an earlier run: two positions bought at 20.
HeldTwo ==
  saveState(
    [createDefaultState(0) EXCEPT
       !.positions = <<[symbol |-> "BTCUSDT", quantity |-> R(5), avgPrice |-> R(20)],
                       [symbol |-> "ETHUSDT", quantity |-> R(5), avgPrice |-> R(20)]>>])

\* A state file with one position.
HeldOne ==
  saveState(
    [createDefaultState(0) EXCEPT
       !.positions = <<[symbol |-> "BTCUSDT", quantity |-> R(5), avgPrice |-> R(20)]>>])

\* A state file with five of the six symbols held.
HeldFive ==
  saveState(
    [createDefaultState(0) EXCEPT
       !.positions = <<[symbol |-> "BTCUSDT", quantity |-> R(1), avgPrice |-> R(10)],
                       [symbol |-> "ETHUSDT", quantity |-> R(1), avgPrice |-> R(10)],
                       [symbol |-> "SOLUSDT", quantity |-> R(1), avgPrice |-> R(10)],
                       [symbol |-> "XRPUSDT", quantity |-> R(1), avgPrice |-> R(10)],
                       [symbol |-> "ADAUSDT", quantity |-> R(1), avgPrice |-> R(10)]>>])

\* A state file with one position smaller than an order of SchemaMaxSizeUsd / 2
\* buys or sells at either price of the book.
HeldLess ==
  saveState(
    [createDefaultState(0) EXCEPT
       !.positions = <<[symbol |-> "BTCUSDT", quantity |-> R(2), avgPrice |-> R(20)]>>])

\* The state after construction; logChecks tells whether ev keeps the failures
\* of the gates' exchange calls, maxFills how many trades a behaviour executes.
InitFilling(files, symbols, prices, amounts, modes, nLoops, logChecks, maxFills) ==
  /\ disk \in files
  /\ market = [symbols |-> symbols, prices |-> prices, amounts |-> amounts,
               logChecks |-> logChecks, maxFills |-> maxFills]
  /\ tradingMode \in modes
  /\ processEnv = [key \in EnvKeys |-> Unset]
  /\ running = FALSE
  /\ intervalId = FALSE
  /\ portfolioIntervalId = FALSE
  /\ circuitBreakers = [y \in Symbols |-> NoBreaker]
  /\ loops = [l \in 1..nLoops |-> IdleLoop]
  /\ pms = [m \in 1..MaxPMs |-> IdlePM]
  /\ now = 0
  /\ today = 0
  /\ fills = 0
  /\ restUntil = [y \in Symbols |-> 0]
  /\ ev = Event("init", "", NoPair)

InitLogging(files, symbols, prices, amounts, modes, nLoops, logChecks) ==
  InitFilling(files, symbols, prices, amounts, modes, nLoops, logChecks, MaxFills)

InitWith(files, symbols, prices, amounts, modes, nLoops) ==
  InitLogging(files, symbols, prices, amounts, modes, nLoops, FALSE)

\* The bot on one trading day with the engine answering and each fast round
\* over before the next timer tick: the two cycles, the operator's start and
\* stop and the emergency-stop endpoint.
Init == InitWith({HeldTwo}, {"BTCUSDT"}, {R(10)}, {50}, {"paper"}, MaxRounds)

Next ==
  \/ start
  \/ stop
  \/ intervalFires
  \/ portfolioIntervalFires
  \/ \E l \in DOMAIN loops : evaluatePairDecides(l)
  \/ \E l \in DOMAIN loops : evaluatePairTrades(l)
  \/ \E m \in DOMAIN pms : consultReturns(m)
  \/ \E m \in DOMAIN pms : portfolioTradeReturns(m)
  \/ \E action \in {"stop", "start"} : handleEmergencyStop(TRUE, action)

Spec == Init /\ [][Next]_vars

\* The fast cycle alone, with the engine failing and the clock running: the
\* timer may tick while a round is still in flight.
InitBreaker == InitWith({HeldOne}, {"BTCUSDT"}, {R(10)}, {50}, {"paper"}, MaxLoops)

NextBreaker ==
  \/ start
  \/ stop
  \/ intervalFires
  \/ \E l \in DOMAIN loops : evaluatePairDecides(l)
  \/ \E l \in DOMAIN loops : evaluatePairCatches(l)
  \/ \E l \in DOMAIN loops : evaluatePairTrades(l)
  \/ clockAdvances

SpecBreaker == InitBreaker /\ [][NextBreaker]_vars

\* The slow cycle alone, with five positions held and a sixth symbol on offer.
InitPortfolio == InitWith({HeldFive}, Symbols, {R(10)}, {50}, {"paper"}, MaxRounds)

NextPortfolio ==
  \/ start
  \/ stop
  \/ portfolioIntervalFires
  \/ \E m \in DOMAIN pms : consultReturns(m)
  \/ \E m \in DOMAIN pms : portfolioTradeReturns(m)

SpecPortfolio == InitPortfolio /\ [][NextPortfolio]_vars

\* The position ledger: both cycles with the price moving between two fetches,
\* a position that an order's quantity covers, matches or exceeds.
InitLedger ==
  InitWith({HeldOne, HeldLess}, {"BTCUSDT"}, {R(10), R(20)}, {50}, {"paper"}, MaxRounds)

NextLedger ==
  \/ start
  \/ stop
  \/ intervalFires
  \/ portfolioIntervalFires
  \/ \E l \in DOMAIN loops : evaluatePairDecides(l)
  \/ \E l \in DOMAIN loops : evaluatePairTrades(l)
  \/ \E m \in DOMAIN pms : consultReturns(m)
  \/ \E m \in DOMAIN pms : portfolioTradeReturns(m)

SpecLedger == InitLedger /\ [][NextLedger]_vars

\* The state store under its callers, one load-mutate-save at a time, from a
\* state file that is missing, unreadable or left by an earlier run, across a
\* change of the calendar date.
InitStore ==
  InitWith({NoFile, CorruptFile, HeldOne}, {"BTCUSDT", "ETHUSDT"}, {R(10), R(20)},
           {50}, {"paper"}, MaxRounds)

NextStore ==
  \/ callUpdatePosition
  \/ callRecordTradePnl
  \/ dateChanges

SpecStore == InitStore /\ [][NextStore]_vars

\* The bot across a change of the calendar date, started with a state file
\* that is missing, unreadable or left by an earlier run: both cycles.
InitDays ==
  InitWith({NoFile, CorruptFile, HeldOne}, {"BTCUSDT"}, {R(10)}, {50}, {"paper"},
           MaxRounds)

NextDays ==
  \/ start
  \/ stop
  \/ intervalFires
  \/ portfolioIntervalFires
  \/ \E l \in DOMAIN loops : evaluatePairDecides(l)
  \/ \E l \in DOMAIN loops : evaluatePairTrades(l)
  \/ \E m \in DOMAIN pms : consultReturns(m)
  \/ \E m \in DOMAIN pms : portfolioTradeReturns(m)
  \/ dateChanges

SpecDays == InitDays /\ [][NextDays]_vars

\* Both cycles in either trading mode, the mode fixed at construction.
InitModes == InitWith({HeldOne}, {"BTCUSDT"}, {R(10)}, {50}, TradingModes, MaxRounds)

NextModes ==
  \/ start
  \/ stop
  \/ intervalFires
  \/ portfolioIntervalFires
  \/ \E l \in DOMAIN loops : evaluatePairDecides(l)
  \/ \E l \in DOMAIN loops : evaluatePairTrades(l)
  \/ \E m \in DOMAIN pms : consultReturns(m)
  \/ \E m \in DOMAIN pms : portfolioTradeReturns(m)

SpecModes == InitModes /\ [][NextModes]_vars

\* Both cycles over two held symbols with the exchange and the oracle failing,
\* the scheduler left running once started.
InitErrors == InitWith({HeldTwo}, {"BTCUSDT"}, {R(10)}, {50}, {"paper"}, MaxRounds)

NextErrors ==
  \/ start
  \/ intervalFires
  \/ portfolioIntervalFires
  \/ \E l \in DOMAIN loops : evaluatePairDecides(l)
  \/ \E l \in DOMAIN loops : evaluatePairCatches(l)
  \/ \E l \in DOMAIN loops : evaluatePairTrades(l)
  \/ \E m \in DOMAIN pms : consultReturns(m)
  \/ \E m \in DOMAIN pms : portfolioTradeReturns(m)

SpecErrors == InitErrors /\ [][NextErrors]_vars

\* The fast cycle with requests that may fail or never be answered. Every
\* continuation of an await whose request settled is run by the event loop.
InitHang == InitWith({HeldOne}, {"BTCUSDT"}, {R(10)}, {50}, {"paper"}, MaxRounds)

Settles ==
  \/ \E l \in DOMAIN loops : evaluatePairDecides(l)
  \/ \E l \in DOMAIN loops : evaluatePairCatches(l)
  \/ \E l \in DOMAIN loops : evaluatePairTrades(l)

NextHang ==
  \/ start
  \/ stop
  \/ intervalFires
  \/ Settles
  \/ \E l \in DOMAIN loops : callNeverResponds(l)

SpecHang == InitHang /\ [][NextHang]_vars /\ WF_vars(Settles)

\* The fast cycle with the exchange calls of its gates failing, ev keeping
\* each failure.
InitGates ==
  InitLogging({HeldOne}, {"BTCUSDT"}, {R(10)}, {50}, {"paper"}, MaxRounds, TRUE)

NextGates ==
  \/ start
  \/ stop
  \/ intervalFires
  \/ \E l \in DOMAIN loops : evaluatePairDecides(l)
  \/ \E l \in DOMAIN loops : evaluatePairCatches(l)
  \/ \E l \in DOMAIN loops : evaluatePairTrades(l)

SpecGates == InitGates /\ [][NextGates]_vars

\* The position-limit check under its caller, one call at a time.
InitLimit ==
  InitWith({HeldOne}, {"BTCUSDT", "ETHUSDT"}, {R(10)}, {50}, {"paper"}, MaxRounds)

NextLimit == callCheckPositionLimit

SpecLimit == InitLimit /\ [][NextLimit]_vars

\* The decision engine under its caller, one evaluation at a time.
InitEngine == InitWith({HeldOne}, {"BTCUSDT"}, {R(10)}, {50}, {"paper"}, MaxRounds)

NextEngine == callEngineEvaluatePair

SpecEngine == InitEngine /\ [][NextEngine]_vars

\* The technical indicators under their callers, one call at a time.
InitIndicators ==
  /\ disk = HeldOne
  /\ market = [symbols |-> {"BTCUSDT"}, prices |-> {R(10)}, amounts |-> {50},
               logChecks |-> FALSE, maxFills |-> MaxFills]
  /\ tradingMode = "paper"
  /\ processEnv = [key \in EnvKeys |-> Unset]
  /\ running = FALSE
  /\ intervalId = FALSE
  /\ portfolioIntervalId = FALSE
  /\ circuitBreakers = [y \in Symbols |-> NoBreaker]
  /\ loops = [l \in 1..MaxRounds |-> IdleLoop]
  /\ pms = [m \in 1..MaxPMs |-> IdlePM]
  /\ now = 0
  /\ today = 0
  /\ fills = 0
  /\ restUntil = [y \in Symbols |-> 0]
  /\ \E in \in IndicatorInputs :
       ev = [Event("init", "", NoPair) EXCEPT !.logged = <<in>>]

NextIndicators ==
  \/ callIndicator
  \/ callMacd

SpecIndicators == InitIndicators /\ [][NextIndicators]_vars

\* Both cycles with five positions held, the slow cycle free to sell one of
\* them and to buy the sixth symbol while a fast round is under way; the
\* oracle of the fast cycle recommends a trade for ETHUSDT only.
\* A step in which engine.evaluatePair returns a BUY or SELL only for a symbol
\* of the set.
oracleTradesOnly(symbols) ==
  (ev'.op = "decide" /\ ev'.result = "trade") => ev'.sym \in symbols

NextPositions ==
  \/ start
  \/ intervalFires
  \/ portfolioIntervalFires
  \/ \E l \in DOMAIN loops : evaluatePairDecides(l) /\ oracleTradesOnly({"ETHUSDT"})
  \/ \E l \in DOMAIN loops : evaluatePairTrades(l)
  \/ \E m \in DOMAIN pms : consultReturns(m)
  \/ \E m \in DOMAIN pms : portfolioTradeReturns(m)

SpecPositions ==
  /\ InitFilling({HeldFive}, {"ETHUSDT", "DOTUSDT"}, {R(10)}, {50}, {"paper"}, MaxRounds,
                 FALSE, MaxFillsBothCycles)
  /\ [][NextPositions]_vars

\* An await of Scheduler.evaluatePair that never settles, as the scheduler sees
\* it: the round takes no further step, so it leaves the rounds in flight and
\* the timer's next tick starts a round beside it.
callNeverRespondsRoundLeft(l) ==
  LET f == loops[l] IN
  /\ f.pc \in {"decide", "trade"}
  /\ loops' = [loops EXCEPT ![l] = IdleLoop]
  /\ ev' = Event("hang", "fast", f.pair)
  /\ UNCHANGED <<disk, running, intervalId, portfolioIntervalId, circuitBreakers,
                 tradingMode, processEnv, pms, market, restUntil, now, today, fills>>

\* The fast cycle over two held symbols with the engine failing, the clock
\* running and requests that may never be answered. The timer keeps ticking
\* while it is registered and the event loop runs every continuation of an
\* await whose request settled.
NextSuppress ==
  \/ start
  \/ intervalFires
  \/ Settles
  \/ \E l \in DOMAIN loops : callNeverRespondsRoundLeft(l)
  \/ clockAdvances

SpecSuppress ==
  /\ InitWith({HeldTwo}, {"BTCUSDT"}, {R(10)}, {50}, {"paper"}, MaxRounds)
  /\ [][NextSuppress]_vars
  /\ WF_vars(intervalFires)
  /\ WF_vars(Settles)

\* The control API in front of the fast cycle: requests with and without the
\* key, the operator's start and stop.
InitApi == InitWith({NoFile, HeldOne}, {"BTCUSDT"}, {R(10)}, {50}, {"paper"}, MaxRounds)

NextApi ==
  \/ start
  \/ stop
  \/ intervalFires
  \/ \E l \in DOMAIN loops : evaluatePairDecides(l)
  \/ \E l \in DOMAIN loops : evaluatePairTrades(l)
  \/ \E authed \in BOOLEAN, action \in {"stop", "start", "status"} :
       handleEmergencyStop(authed, action)
  \/ \E authed \in BOOLEAN, method \in {"GET", "POST"}, body \in ConfigBodies :
       handleConfig(authed, method, body)

SpecApi == InitApi /\ [][NextApi]_vars

\* ------------------------------------------------------------ claims

\* C1: while the persisted emergencyStop flag is true, no trade is executed by
\* the fast or the slow cycle: a step that executes a trade starts from a state
\* whose state file does not carry the flag.
C1_NoTradeWhileStopped ==
  [][fills' > fills => ~persistedStop]_vars

\* C2: after the third failure in a row of a symbol's evaluation, no evaluation
\* of that symbol begins until 30 minutes have passed: a frame that enters
\* evaluatePair's body for a pair does so at or after the pair's restUntil.
C2_RestsThirtyMinutes ==
  [][\A l \in DOMAIN loops :
       (loops'[l] # loops[l] /\ loops'[l].pc = "decide")
         => now' >= restUntil'[loops'[l].pair]]_vars

\* C3: once the persisted dailyPnl is below -dailyLossLimitUsd, no cycle
\* executes a further trade that day: a step that executes a trade starts from a
\* state file whose daily P&L, as loadState reads it today, is not below the limit.
C3_NoTradeAfterDailyLoss ==
  [][fills' > fills
       => ~RLt(loadState(disk, today).dailyPnl, R(-DailyLossLimitUsd))]_vars

\* C4: no save of a stale copy overwrites the other cycle's update: when the
\* fast or the slow cycle writes the state file, the positions and the P&L of
\* the copy it loaded are still those of the file.
C4_NoStaleSave ==
  [][/\ \A l \in DOMAIN loops :
          (loops[l].pc = "trade" /\ loops'[l] # loops[l] /\ disk' # disk)
            => /\ loops[l].state.positions = loadState(disk, today).positions
               /\ loops[l].state.cumulativePnl = loadState(disk, today).cumulativePnl
     /\ \A m \in DOMAIN pms :
          (pms[m].pc = "trade" /\ pms'[m] # pms[m] /\ disk' # disk)
            => /\ pms[m].state.positions = loadState(disk, today).positions
               /\ pms[m].state.cumulativePnl = loadState(disk, today).cumulativePnl]_vars

\* C5: a trade whose size exceeds maxTradeUsd is rejected before any exchange
\* call, in the fast cycle and in the portfolio manager: the executor is never
\* called with a size above maxTradeUsd.
C5_SizeWithinMaxTradeUsd ==
  ev.op = "trade" => RLe(ev.size, R(MaxTradeUsd))

\* C6: the persisted emergencyStop flag, once true, stays true until it is
\* explicitly cleared: only the emergency-stop endpoint takes the flag from
\* true to false.
C6_StopFlagPersists ==
  [][(persistedStop /\ ~persistedStop') => ev'.op = "emergency-stop"]_vars

\* C7: after stop() both timers are cleared, no fast or slow cycle and no
\* symbol evaluation or recommendation execution begins, and an evaluation in
\* flight runs on: while the scheduler is not running, a frame either stays,
\* ends, or carries its evaluation of the same pair on to the trade.
C7_StopHalts ==
  [][~running'
       => /\ ~intervalId' /\ ~portfolioIntervalId'
          /\ \A l \in DOMAIN loops :
               \/ loops'[l] = loops[l]
               \/ loops'[l] = IdleLoop
               \/ /\ loops[l].pc = "decide"
                  /\ loops'[l].pc = "trade"
                  /\ loops'[l].pair = loops[l].pair
                  /\ loops'[l].pairs = loops[l].pairs
          /\ \A m \in DOMAIN pms : pms'[m] = pms[m] \/ pms'[m] = IdlePM]_vars

\* C7, reached: the scheduler is stopped, the evaluation of BTCUSDT that was in
\* flight has just executed and saved its trade, and ETHUSDT, still held, was
\* not begun.
C7_Witness ==
  /\ ~running
  /\ ev.op = "trade" /\ ev.by = "fast" /\ ev.sym = "BTCUSDT" /\ ev.result = "saved"
  /\ "ETHUSDT" \in symbolsOf(disk.data.positions)
  /\ ~disk.data.emergencyStop
  /\ \A l \in DOMAIN loops : loops[l] = IdleLoop

\* C8: at most one fast-cycle evaluation is in flight at any time.
C8_OneEvaluationInFlight ==
  Cardinality({l \in DOMAIN loops : loops[l].pc # "idle"}) <= 1

\* C9: the fast cycle never creates a position for a symbol that is not in the
\* persisted position set at the time of the write.
C9_FastCycleCreatesNoPosition ==
  [][\A l \in DOMAIN loops :
       (loops[l].pc = "trade" /\ loops'[l] # loops[l] /\ disk' # disk)
         => symbolsOf(disk'.data.positions)
              \subseteq symbolsOf(loadState(disk, today).positions)]_vars

\* C10: with five positions held, a BUY recommendation of the slow cycle is
\* rejected with an entry in the recommendation log that gives the
\* max-positions reason: every BUY that consult() discards for the position
\* limit has such an entry.
C10_RejectionIsLogged ==
  ev.op = "consult"
    => \A y \in ev.dropped :
         \E i \in 1..Len(ev.logged) :
           /\ ev.logged[i].symbol = y
           /\ ev.logged[i].action = "BUY"
           /\ ~ev.logged[i].executed
           /\ ev.logged[i].reason = "Max positions (5) reached"

\* C11: a SELL whose quantity exceeds the held quantity is rejected or clamped
\* to the held quantity before it reaches the state store, and no stored
\* position has a quantity of zero or less: when the fast cycle saves the state
\* after an executed SELL, the quantity sold (size_usd / fill price) is at most
\* the quantity of the position it loaded, and every position of the state file
\* has a positive quantity.
C11_NoOversell ==
  [][/\ \A l \in DOMAIN loops :
          (/\ loops[l].pc = "trade" /\ loops'[l] # loops[l]
           /\ loops[l].decision.action = "SELL"
           /\ ev'.op = "trade" /\ ev'.result = "saved")
          => LET i == findIndex(loops[l].state.positions, loops[l].pair)
             IN  /\ i # 0
                 /\ RLe(RDiv(ev'.size, ev'.price), loops[l].state.positions[i].quantity)
     /\ \A k \in 1..Len(disk'.data.positions) :
           RLt(RZero, disk'.data.positions[k].quantity)]_vars

\* C12: an executed fast-cycle SELL of quantity q reduces the stored position's
\* quantity by q, and the position is removed only when what remains is zero or
\* less: when the fast cycle saves the state after a SELL of q = size_usd / fill
\* price of a position of h units, the saved state holds h - q units of the pair
\* if q < h and no position of the pair otherwise.
C12_SellReducesByQuantity ==
  [][\A l \in DOMAIN loops :
       (/\ loops[l].pc = "trade" /\ loops'[l] # loops[l]
        /\ loops[l].decision.action = "SELL"
        /\ ev'.op = "trade" /\ ev'.result = "saved"
        /\ findIndex(loops[l].state.positions, loops[l].pair) # 0)
       => LET held == loops[l].state.positions[
                        findIndex(loops[l].state.positions, loops[l].pair)].quantity
              q == RDiv(ev'.size, ev'.price)
              after == findIndex(disk'.data.positions, loops[l].pair)
          IN  IF RLt(q, held)
                THEN after # 0 /\ disk'.data.positions[after].quantity = RSub(held, q)
                ELSE after = 0]_vars

\* C13: for every executed SELL the realised P&L added to cumulativePnl and to
\* dailyPnl is (fill price - avgPrice) x sold quantity, taken from the position
\* as it was before the reduction: when a cycle saves the state after a SELL,
\* both totals of the saved state are those of the state it loaded plus that
\* amount, the sold quantity being the order's quantity or, when the order
\* exceeds the position, the held quantity (fast cycle), and the whole position
\* (portfolio path).
C13_SellRealisesPnl ==
  [][/\ \A l \in DOMAIN loops :
          (/\ loops[l].pc = "trade" /\ loops'[l] # loops[l]
           /\ loops[l].decision.action = "SELL"
           /\ ev'.op = "trade" /\ ev'.result = "saved"
           /\ findIndex(loops[l].state.positions, loops[l].pair) # 0)
          => (LET before == loops[l].state
                 position == before.positions[findIndex(before.positions, loops[l].pair)]
                 q == RDiv(ev'.size, ev'.price)
                 gain == RSub(ev'.price, position.avgPrice)
                 added == RSub(disk'.data.cumulativePnl, before.cumulativePnl)
             IN  /\ added \in {RMul(gain, q), RMul(gain, RMin(q, position.quantity))}
                 /\ RSub(disk'.data.dailyPnl, before.dailyPnl) = added)
     /\ \A m \in DOMAIN pms :
          (/\ pms[m].pc = "trade" /\ pms'[m] # pms[m]
           /\ pms[m].rec.action = "SELL"
           /\ ev'.op = "trade" /\ ev'.result = "saved")
          => (LET before == pms[m].state
                 position == before.positions[findIndex(before.positions,
                                                        pms[m].rec.symbol)]
                 added == RMul(RSub(ev'.price, position.avgPrice), position.quantity)
             IN  /\ RSub(disk'.data.cumulativePnl, before.cumulativePnl) = added
                 /\ RSub(disk'.data.dailyPnl, before.dailyPnl) = added)]_vars

\* C14: an executed BUY increases the position's quantity by the filled
\* quantity (size_usd / fill price) and leaves cumulativePnl, dailyPnl and
\* dailyLossCount unchanged: when a cycle saves the state after a BUY, the
\* saved state holds the quantity that cycle loaded for the pair plus the
\* filled quantity, and the three totals as loaded.
C14_BuyAddsQuantityOnly ==
  [][/\ \A l \in DOMAIN loops :
          (/\ loops[l].pc = "trade" /\ loops'[l] # loops[l]
           /\ loops[l].decision.action = "BUY"
           /\ ev'.op = "trade" /\ ev'.result = "saved")
          => (LET before == loops[l].state
                  i == findIndex(before.positions, loops[l].pair)
                  j == findIndex(disk'.data.positions, loops[l].pair)
                  held == IF i = 0 THEN RZero ELSE before.positions[i].quantity
              IN  /\ j # 0
                  /\ disk'.data.positions[j].quantity
                       = RAdd(held, RDiv(ev'.size, ev'.price))
                  /\ disk'.data.cumulativePnl = before.cumulativePnl
                  /\ disk'.data.dailyPnl = before.dailyPnl
                  /\ disk'.data.dailyLossCount = before.dailyLossCount)
     /\ \A m \in DOMAIN pms :
          (/\ pms[m].pc = "trade" /\ pms'[m] # pms[m]
           /\ pms[m].rec.action = "BUY"
           /\ ev'.op = "trade" /\ ev'.result = "saved")
          => (LET before == pms[m].state
                  i == findIndex(before.positions, pms[m].rec.symbol)
                  j == findIndex(disk'.data.positions, pms[m].rec.symbol)
                  held == IF i = 0 THEN RZero ELSE before.positions[i].quantity
              IN  /\ j # 0
                  /\ disk'.data.positions[j].quantity
                       = RAdd(held, RDiv(ev'.size, ev'.price))
                  /\ disk'.data.cumulativePnl = before.cumulativePnl
                  /\ disk'.data.dailyPnl = before.dailyPnl
                  /\ disk'.data.dailyLossCount = before.dailyLossCount)]_vars

\* C15: after additive BUY fills the position's avgPrice is the quantity-weighted
\* average of the fill prices, so two fills applied in either order give the
\* same quantity and avgPrice: when updatePosition is called with a positive
\* quantity q at price p, the saved position's quantity is the loaded one plus q
\* and its quantity x avgPrice is the loaded quantity x avgPrice plus q x p, and
\* following that fill with any other fill gives the positions that the two
\* fills give in the other order.
C15_WeightedAverage ==
  [][(ev'.op = "updatePosition" /\ RLt(RZero, ev'.size))
      => LET before == loadState(disk, today)
             i == findIndex(before.positions, ev'.sym)
             j == findIndex(disk'.data.positions, ev'.sym)
             heldQty == IF i = 0 THEN RZero ELSE before.positions[i].quantity
             heldCost == IF i = 0 THEN RZero
                         ELSE RMul(before.positions[i].quantity, before.positions[i].avgPrice)
         IN  /\ j # 0
             /\ disk'.data.positions[j].quantity = RAdd(heldQty, ev'.size)
             /\ RMul(disk'.data.positions[j].quantity, disk'.data.positions[j].avgPrice)
                  = RAdd(heldCost, RMul(ev'.size, ev'.price))
             /\ \A quantity \in {q \in StoreQuantities : RLt(RZero, q)},
                   price \in market.prices :
                  updatePosition(disk'.data, ev'.sym, quantity, price).positions
                    = updatePosition(updatePosition(before, ev'.sym, quantity, price),
                                     ev'.sym, ev'.size, ev'.price).positions]_vars

\* C15 witness: a fill has just been added to a position whose avgPrice is none
\* of the prices quoted, the average of fills at different prices.
C15_Witness ==
  /\ ev.op = "updatePosition"
  /\ RLt(RZero, ev.size)
  /\ \E k \in 1..Len(disk.data.positions) :
       /\ disk.data.positions[k].symbol = ev.sym
       /\ disk.data.positions[k].avgPrice \notin market.prices

\* C16: when a trade result has executed = false, that evaluation leaves the
\* persisted bot state unchanged and performs no state save, in the fast cycle
\* and in the portfolio path: a step in which the executor's trade failed
\* leaves the state file as it was.
C16_FailedTradeSavesNothing ==
  [][(ev'.op = "trade" /\ ev'.result = "failed") => disk' = disk]_vars

\* C16 witness: a trade of the portfolio manager has failed after another trade
\* was executed.
C16_Witness ==
  ev.op = "trade" /\ ev.by = "slow" /\ ev.result = "failed" /\ fills > 0

\* C17: the trade executor never throws: for every decision and every failure
\* of the price fetch or of the order placement it returns a TradeResult with
\* executed = false and an error, and it returns executed = true only when a
\* fill price was obtained.  Whatever the mode, the decision and the outcome of
\* the exchange call, the result is a TradeResult that carries an error exactly
\* when the call failed and executed = true, with the price obtained, exactly
\* when it did not; a cycle's trade that is reported executed carries one of
\* the prices quoted.
C17_ExecutorNeverThrows ==
  [][ev'.op = "trade"
      => /\ ev'.result \in {"saved", "unsaved"}
              => \E p \in market.prices :
                   ev'.price = IF tradingMode = "paper" THEN ToFixed2(p) ELSE p
         /\ \A mode \in TradingModes, decision \in OracleObjects,
               call \in ExchangeCalls(market.prices) :
              LET result == executeTrade(mode, decision, call)
              IN  /\ result.error = (call.kind = "error")
                  /\ result.executed = ~result.error
                  /\ result.executed
                       => result.avgPrice = IF mode = "paper" THEN ToFixed2(call.price)
                                            ELSE call.price]_vars

\* C17 witness: the executor's exchange call failed in the fast cycle and the
\* round went on.
C17_Witness ==
  ev.op = "trade" /\ ev.by = "fast" /\ ev.result = "failed" /\ ev.price = RZero

\* C18: dailyPnl and dailyLossCount are reset to zero exactly once when the
\* calendar date changes, on the first load after the rollover; every later
\* load on the same day returns them unchanged, and P&L recorded after the reset
\* is not reset again before the next date change.  loadState resets when the
\* file's lastDailyReset is not today: once the state file carries today's date
\* (the day's reset was made and saved), it carries it until the date changes.
C18_DailyResetOnce ==
  [][(today' = today /\ disk.file = "json" /\ disk.data.lastDailyReset = today)
       => (disk'.file = "json" /\ disk'.data.lastDailyReset = today)]_vars

\* C19: loadState never fails on a missing or unparsable state file: it
\* returns a freshly initialised default state (no positions, zero cumulative
\* and daily P&L, emergencyStop false), and the scheduler keeps running.  While
\* the state file is missing or unreadable, loadState returns that state
\* stamped with today's date, start() leaves the scheduler running, nothing but
\* stop() ends it, and the portfolio manager works from the state it was given.
C19_LoadStateDefaults ==
  [][disk.file # "json"
      => /\ loadState(disk, today)
              = [positions |-> <<>>, cumulativePnl |-> RZero, dailyPnl |-> RZero,
                 dailyLossCount |-> 0, lastDailyReset |-> today,
                 emergencyStop |-> FALSE]
         /\ ev'.op = "start" => running'
         /\ (running /\ ev'.op # "stop") => running'
         /\ disk'.file # "json"
              => \A m \in DOMAIN pms :
                   pms'[m].pc = "trade"
                     => /\ pms'[m].state.positions = <<>>
                        /\ pms'[m].state.cumulativePnl = RZero
                        /\ pms'[m].state.dailyPnl = RZero
                        /\ ~pms'[m].state.emergencyStop]_vars

\* C19 witness: the scheduler runs on an unreadable state file and the
\* portfolio manager is about to trade from the default state it loaded.
C19_Witness ==
  /\ disk.file = "corrupt"
  /\ running
  /\ \E m \in DOMAIN pms : pms[m].pc = "trade" /\ pms[m].state.positions = <<>>

\* C20: an oracle reply that contains no JSON object, or whose object fails
\* validation against the decision schema, yields the decision HOLD with
\* confidence 0 and size_usd 0: a malformed BUY/SELL never reaches trade
\* execution and the evaluation does not fail.  For every such reply
\* parseDecision returns that decision, the engine returns it without throwing
\* and the evaluation ends without a trade; a decision that reaches the
\* executor satisfies the schema, and an evaluation whose decision has
\* confidence 0 never trades.
C20_MalformedReplyHolds ==
  /\ \A reply \in OracleReplies :
       (reply.kind = "nojson" \/ ~TradingDecisionSchema(reply.obj))
         => /\ parseDecision(reply)
                 = [action |-> "HOLD", confidence |-> 0, size_usd |-> RZero]
            /\ \A review \in Reviews :
                 /\ ~engineEvaluatePair(TRUE, reply, review).threw
                 /\ engineEvaluatePair(TRUE, reply, review).decision = parseDecision(reply)
                 /\ \A klines \in Klines :
                      decideOutcome(klines, TRUE, reply, review).outcome
                        \in {"hold", "volatile"}
  /\ \A l \in DOMAIN loops :
       loops[l].pc = "trade"
         => /\ TradingDecisionSchema(loops[l].decision)
            /\ loops[l].decision.action \in {"BUY", "SELL"}
  /\ (ev.op = "decide" /\ ev.confidence = 0) => ev.result # "trade"

\* C20 witness: an evaluation has ended on HOLD with confidence 0, the decision
\* of a malformed reply.
C20_Witness ==
  ev.op = "decide" /\ ev.by = "fast" /\ ev.result = "hold" /\ ev.confidence = 0

\* C21: a self-reflection pass that fails in any way (the oracle call errors,
\* the reply has no parseable JSON, or the reply does not explicitly
\* disapprove) leaves the original decision as the engine's result. An
\* evaluation that ends in the scheduler's catch block therefore never had a
\* decision under review: ev.confidence of an "error" step is the confidence of
\* the validated decision whose review threw, 0 when the market data fetch
\* threw, and only decisions of ConfidenceThreshold or more are reviewed.
C21_ReflectionFailureKeepsDecision ==
  ~(ev.op = "decide" /\ ev.result = "error" /\ ev.confidence >= ConfidenceThreshold)

\* C22: the fast cycle executes a BUY or SELL only when the decision's
\* confidence is at least ConfidenceThreshold: every fast-cycle step in which
\* the executor filled an order belongs to a decision of that confidence.
C22_TradesOnlyAboveThreshold ==
  [][\A l \in DOMAIN loops :
       (/\ loops[l].pc = "trade"
        /\ loops'[l] # loops[l]
        /\ ev'.op = "trade"
        /\ ev'.result \in {"saved", "unsaved"})
       => loops[l].decision.confidence >= ConfidenceThreshold]_vars

\* C23: in paper mode no order-placement request is ever sent to the exchange,
\* over any sequence of fast and slow cycles: the executor's one request is the
\* price ticker, and an executed trade is a fill of ev.size USD at a price of
\* the ticker, written with two decimals.
C23_PaperPlacesNoOrder ==
  tradingMode = "paper" =>
    /\ ev.call # "POST /v3/order"
    /\ (ev.op = "trade" /\ ev.result \in {"saved", "unsaved"}) =>
         /\ ev.call = "GET /v3/ticker/price"
         /\ \E p \in market.prices : ev.price = ToFixed2(p)

C23_Witness ==
  /\ tradingMode = "paper"
  /\ ev.op = "trade"
  /\ ev.result = "saved"
  /\ ev.call = "GET /v3/ticker/price"
  /\ RLt(RZero, ev.size)

\* C24: a request to the emergency-stop or the config operation without the
\* valid X-API-Key is answered 401 and changes neither the persisted state, nor
\* the scheduler's running status (its timers and running cycles included), nor
\* the runtime configuration.
C24_UnauthenticatedChangesNothing ==
  [][ev'.by = "anonymous" =>
       /\ ev'.op \in {"emergency-stop", "config"}
       /\ ev'.result = "401"
       /\ UNCHANGED <<disk, running, intervalId, portfolioIntervalId, processEnv,
                      loops, pms, circuitBreakers, tradingMode>>]_vars

C24_Witness ==
  /\ ev.by = "anonymous"
  /\ ev.op = "emergency-stop"
  /\ ev.result = "401"
  /\ running
  /\ disk.file = "json"
  /\ ~disk.data.emergencyStop

\* C25: an authenticated emergency-stop request with action 'stop' persists
\* emergencyStop = true and leaves the scheduler not running, its timers
\* cleared; with action 'start' it persists emergencyStop = false and leaves
\* the scheduler running; with no action it answers with the persisted flag
\* and changes nothing.
C25_EmergencyStopActions ==
  [][(ev'.op = "emergency-stop" /\ ev'.by = "api") =>
       /\ (ev'.result = "stop" =>
             (/\ disk'.file = "json"
              /\ disk'.data.emergencyStop
              /\ ~running'
              /\ ~intervalId'
              /\ ~portfolioIntervalId'
              /\ ev'.reply = "true"))
       /\ (ev'.result = "start" =>
             (/\ disk'.file = "json"
              /\ ~disk'.data.emergencyStop
              /\ running'
              /\ intervalId'
              /\ portfolioIntervalId'
              /\ ev'.reply = "false"))
       /\ (ev'.result = "status" =>
             (/\ UNCHANGED <<disk, running, intervalId, portfolioIntervalId, processEnv,
                            loops, pms, circuitBreakers>>
              /\ (disk.file = "json" =>
                    ev'.reply = IF disk.data.emergencyStop THEN "true" ELSE "false")))
       /\ ev'.result \in {"stop", "start", "status"}]_vars

C25_Witness ==
  /\ ev.op = "emergency-stop"
  /\ ev.by = "api"
  /\ ev.result = "stop"
  /\ disk.file = "json"
  /\ disk.data.emergencyStop
  /\ ~running
  /\ \E l \in DOMAIN loops : loops[l].pc # "idle"

\* C26: no error raised by the exchange client or the oracle during a
\* per-symbol evaluation or a portfolio consult or rebalance propagates out of
\* the cycle. After a failure on one symbol the fast round goes on with the
\* held symbols that remain (each is under evaluation, was skipped by a gate of
\* its own evaluation, or is still queued behind the one under evaluation),
\* after a failed portfolio trade the slow round goes on with the
\* recommendations that remain, and both timers stay registered.
C26_ErrorsStayInsideTheCycle ==
  [][/\ \A l \in DOMAIN loops :
          (/\ loops[l].pc = "decide"
           /\ loops'[l] # loops[l]
           /\ ev'.op = "decide"
           /\ ev'.result = "error")
          => (/\ running' = running
              /\ intervalId' = intervalId
              /\ portfolioIntervalId' = portfolioIntervalId
              /\ \A i \in 1..Len(loops[l].pairs) :
                   \/ loops'[l].pc = "decide" /\ loops'[l].pair = loops[l].pairs[i]
                   \/ \E skip \in ev'.skips : skip[1] = loops[l].pairs[i]
                   \/ /\ loops'[l].pc = "decide"
                      /\ \E j \in 1..Len(loops'[l].pairs) :
                           loops'[l].pairs[j] = loops[l].pairs[i]
                   \/ ~running)
     /\ \A m \in DOMAIN pms :
          (/\ pms[m].pc = "trade"
           /\ pms'[m] # pms[m]
           /\ ev'.by = "slow"
           /\ ev'.result = "failed")
          => (/\ running' = running
              /\ intervalId' = intervalId
              /\ portfolioIntervalId' = portfolioIntervalId
              /\ pms'[m] = runPortfolioFrom(pms[m].recs, running, disk, today).frame)]_vars

C26_Witness ==
  /\ ev.op = "decide"
  /\ ev.result = "error"
  /\ ev.sym = "BTCUSDT"
  /\ running
  /\ intervalId
  /\ portfolioIntervalId
  /\ \E l \in DOMAIN loops : loops[l].pc = "decide" /\ loops[l].pair = "ETHUSDT"

\* C27: an external call (market data, oracle, order placement) that never
\* responds is treated as an ordinary failure after a bounded wait: the
\* evaluation waiting for it eventually leaves that await, with the symbol's
\* error count incremented, and the fast round proceeds to the next symbol.
C27_HungCallBecomesFailure ==
  \A l \in 1..MaxRounds : (loops[l].pc = "hung") ~> (loops[l].pc # "hung")

\* C28: every per-symbol evaluation that completes without an unhandled error
\* resets that symbol's circuit-breaker record to {errors: 0, skipUntil: 0},
\* whatever the resulting action (HOLD, BUY or SELL) and whether or not a trade
\* was executed: after a step that ends an evaluation with a decision (a HOLD,
\* an order the position limit rejected, a trade that failed or was filled) the
\* symbol's record is the reset one.
C28_CompletedEvaluationResetsBreaker ==
  [][\A l \in DOMAIN loops :
       (/\ loops[l].pc \in {"decide", "trade"}
        /\ loops'[l] # loops[l]
        /\ ev'.by = "fast"
        /\ \/ ev'.op = "decide" /\ ev'.result = "hold"
           \/ ev'.op \in {"trade", "limit"})
       => circuitBreakers'[loops[l].pair] = [errors |-> 0, skipUntil |-> 0]]_vars

\* C29: a failure of order placement (or of the simulated fill's price fetch)
\* during a fast-cycle evaluation is a hard stop for that symbol's iteration
\* and counts toward the circuit breaker: the step in which the executor
\* reports the failure saves nothing and raises the symbol's error count by
\* one.
C29_FailedTradeCountsAsError ==
  [][\A l \in DOMAIN loops :
       (/\ loops[l].pc = "trade"
        /\ loops'[l] # loops[l]
        /\ ev'.by = "fast"
        /\ ev'.op = "trade"
        /\ ev'.result = "failed")
       => (/\ disk' = disk
           /\ circuitBreakers'[loops[l].pair].errors =
                circuitBreakers[loops[l].pair].errors + 1)]_vars

\* C30: within one fast round the evaluation of the next held symbol starts
\* only after the previous symbol's whole pipeline (gates, decision, trade
\* execution and synchronous state save) has finished: the step in which a
\* round moves from one symbol to another is the step that ends the first
\* symbol's evaluation (a HOLD, a skip, a caught error, a rejected, failed or
\* filled order), and the state the next evaluation starts from is the state
\* file as that step left it.
C30_SymbolsOneAfterAnother ==
  [][\A l \in DOMAIN loops :
       (/\ loops[l].pc \in {"decide", "trade"}
        /\ loops'[l].pc = "decide"
        /\ loops'[l].pair # loops[l].pair)
       => (/\ ev'.by = "fast"
           /\ ev'.sym = loops[l].pair
           /\ \/ ev'.op = "decide" /\ ev'.result \in {"hold", "volatile", "error"}
              \/ ev'.op \in {"trade", "limit"} /\ loops[l].pc = "trade"
           /\ loops'[l].state = loadState(disk', today)
           /\ \E i \in 1..Len(loops[l].pairs) : loops[l].pairs[i] = loops'[l].pair)]_vars

C30_Witness ==
  /\ ev.by = "fast"
  /\ ev.op = "trade"
  /\ ev.result = "saved"
  /\ ev.sym = "BTCUSDT"
  /\ \E l \in DOMAIN loops :
       /\ loops[l].pc = "decide"
       /\ loops[l].pair = "ETHUSDT"
       /\ loops[l].state.positions = disk.data.positions
       /\ loops[l].state.positions # HeldTwo.data.positions

\* C31: when the volatility gate skips a symbol, only that symbol's current
\* evaluation is skipped: the step leaves every circuit-breaker record and the
\* persisted state as they were, and the round goes on with the held symbols
\* that remain (each is under evaluation, was skipped by a gate of its own
\* evaluation, or is still queued).
C31_VolatilitySkipsOnlyThisEvaluation ==
  [][\A l \in DOMAIN loops :
       (/\ loops[l].pc = "decide"
        /\ loops'[l] # loops[l]
        /\ ev'.op = "decide"
        /\ ev'.result = "volatile")
       => (/\ circuitBreakers' = circuitBreakers
           /\ restUntil' = restUntil
           /\ disk' = disk
           /\ running' = running
           /\ \A i \in 1..Len(loops[l].pairs) :
                \/ loops'[l].pc = "decide" /\ loops'[l].pair = loops[l].pairs[i]
                \/ \E skip \in ev'.skips : skip[1] = loops[l].pairs[i]
                \/ /\ loops'[l].pc = "decide"
                   /\ \E j \in 1..Len(loops'[l].pairs) :
                        loops'[l].pairs[j] = loops[l].pairs[i]
                \/ ~running)]_vars

C31_Witness ==
  /\ ev.op = "decide"
  /\ ev.result = "volatile"
  /\ ev.sym = "BTCUSDT"
  /\ circuitBreakers["BTCUSDT"].errors = 1
  /\ \E l \in DOMAIN loops : loops[l].pc = "decide" /\ loops[l].pair = "ETHUSDT"

\* C32: when the volatility check or the position-concentration check cannot
\* be evaluated because its exchange call fails, the gate passes: the
\* evaluation is not skipped and the order is not rejected, it goes on to the
\* decision or to the executor, and unless the engine itself then throws the
\* symbol's error count is not raised.
C32_GatesFailOpen ==
  [][\A l \in DOMAIN loops :
       (/\ loops[l].pc \in {"decide", "trade"}
        /\ loops'[l] # loops[l]
        /\ ev'.by = "fast"
        /\ ev'.checkFailed)
       => (/\ ev'.result \notin {"volatile", "rejected"}
           /\ (loops[l].pc = "decide" => ev'.result \in {"hold", "trade", "error"})
           /\ (loops[l].pc = "trade" =>
                 (ev'.op = "trade" /\ ev'.call = executorCall(tradingMode)))
           /\ (ev'.result # "error" =>
                 circuitBreakers'[loops[l].pair].errors
                   <= circuitBreakers[loops[l].pair].errors))]_vars

C32_Witness ==
  /\ ev.by = "fast"
  /\ ev.op = "trade"
  /\ ev.checkFailed
  /\ ev.result = "saved"
  /\ ev.sym = "BTCUSDT"

\* C33: the position-concentration gate rejects a BUY exactly when (current
\* value of the asset + trade size) / (total priced portfolio value + trade
\* size) exceeds 50%, the balances that cannot be priced left out of the total,
\* and it always allows a SELL. A check whose account fetch or own ticker
\* throws allows the order.
C33_PositionLimitRejectsAboveHalf ==
  ev.op = "checkPositionLimit" =>
    LET call == ev.logged[1]
        counted(b) == RLt(RZero, b.amount) /\ (b.asset = "USDT" \/ b.priced)
        account == accountOf(call.sheet, ev.sym)
        rejected == ev.result = "rejected"
    IN  /\ call.action = "SELL" => ~rejected
        /\ account.kind = "error" => ~rejected
        /\ account.kind = "ok" =>
             account.total = totalPortfolioValue(SelectSeq(call.sheet.balances, counted))
        /\ (call.action = "BUY" /\ account.kind = "ok") =>
             (rejected <=>
                RLt(RAdd(account.total, ev.size),
                    RMul(R(2), RAdd(account.asset, ev.size))))

C33_Witness ==
  /\ ev.op = "checkPositionLimit"
  /\ ev.result = "rejected"
  /\ ev.size = R(10)
  /\ \E i \in 1..Len(ev.logged[1].sheet.balances) :
       /\ ~ev.logged[1].sheet.balances[i].priced
       /\ RLt(RZero, ev.logged[1].sheet.balances[i].amount)

\* C34: every decision the decision engine returns with action HOLD has
\* size_usd = 0, for every oracle reply, the replies that pass the schema and
\* the decisions the reflection pass downgrades included.
C34_HoldHasZeroSize ==
  (ev.op = "engine.evaluatePair" /\ ev.result = "HOLD") => ev.size = RZero

\* C35: for every period p, sma and ema return NaN for a series shorter than
\* p, rsi returns NaN for a series no longer than p, and macd returns NaN for
\* its macd and signal values when the series is shorter than its fast or its
\* slow period (and NaN for its signal when shorter than the signal period).
C35_ShortSeriesGiveNaN ==
  /\ (/\ ev.op \in {"sma", "ema"}
      /\ Len(ev.logged[1].prices) < ev.logged[1].period)
       => ev.result = "NaN"
  /\ (/\ ev.op = "rsi"
      /\ Len(ev.logged[1].prices) <= ev.logged[1].period)
       => ev.result = "NaN"
  /\ (/\ ev.op = "macd"
      /\ \/ Len(ev.logged[1].prices) < ev.logged[1].period
         \/ Len(ev.logged[1].prices) < ev.logged[1].slowPeriod)
       => (ev.result = "NaN" /\ ev.reply = "NaN")
  /\ (/\ ev.op = "macd"
      /\ Len(ev.logged[1].prices) < ev.logged[1].signalPeriod)
       => ev.reply = "NaN"

\* sma called with a non-empty series one value short of its period.
C35_Witness ==
  /\ ev.op = "sma"
  /\ Len(ev.logged[1].prices) > 0
  /\ Len(ev.logged[1].prices) + 1 = ev.logged[1].period
  /\ ev.result = "NaN"

\* C36: an authenticated POST to the config endpoint answers 200 and writes to
\* process.env exactly the body's entries for BOT_PAIRS, BOT_CHECK_INTERVAL_MS
\* and BOT_CONFIDENCE_THRESHOLD; every other key of the body is ignored and
\* every key the body does not name keeps its value.
C36_ConfigAppliesOnlyAllowedKeys ==
  [][(/\ ev'.op = "config"
      /\ ev'.by = "api"
      /\ ev'.logged[1].method = "POST")
       => LET entries == IF ev'.logged[1].body.kind = "nojson" THEN {}
                         ELSE ev'.logged[1].body.entries
              allowed == {"BOT_PAIRS", "BOT_CHECK_INTERVAL_MS",
                          "BOT_CONFIDENCE_THRESHOLD"}
          IN  /\ ev'.result = "200"
              /\ DOMAIN processEnv' = DOMAIN processEnv
              /\ \A key \in DOMAIN processEnv :
                   IF key \in allowed /\ \E e \in entries : e[1] = key
                     THEN <<key, processEnv'[key]>> \in entries
                     ELSE processEnv'[key] = processEnv[key]]_vars

\* An authenticated POST with an allowed and another key has answered 200:
\* the allowed key is written, the other one is not.
C36_Witness ==
  /\ ev.op = "config"
  /\ ev.by = "api"
  /\ ev.result = "200"
  /\ <<"INVALID_KEY", "value">> \in ev.logged[1].body.entries
  /\ processEnv["INVALID_KEY"] = Unset
  /\ processEnv["BOT_PAIRS"] = "ETHUSDT"

\* C37: a symbol's error count of BreakerThreshold or more stays at
\* BreakerThreshold or more until an evaluation of the symbol succeeds, and
\* an evaluation of the symbol that fails once the cooldown has expired, the
\* count still that high, sets the skip to end CooldownMinutes from now.
C37_FailureAfterCooldownTripsAgain ==
  [][\A y \in Symbols :
       circuitBreakers[y].errors >= BreakerThreshold
       => /\ \/ circuitBreakers'[y].errors >= BreakerThreshold
             \/ /\ circuitBreakers'[y] = [errors |-> 0, skipUntil |-> 0]
                /\ ev'.op \in {"decide", "trade"}
                /\ ev'.sym = y
                /\ ev'.result # "error"
          /\ (/\ now >= circuitBreakers[y].skipUntil
              /\ ev'.op = "decide"
              /\ ev'.sym = y
              /\ ev'.result = "error")
               => /\ circuitBreakers'[y].errors = circuitBreakers[y].errors + 1
                  /\ circuitBreakers'[y].skipUntil = now' + CooldownMinutes
                  /\ evaluatePairGate(loadState(disk', today'), circuitBreakers'[y], now')
                       = "circuitBreaker"]_vars

\* An evaluation has failed after the cooldown of a tripped breaker expired:
\* the count is above BreakerThreshold and a new skip has begun.
C37_Witness ==
  /\ ev.op = "decide"
  /\ ev.result = "error"
  /\ ev.logged[1].errors >= BreakerThreshold
  /\ now >= ev.logged[1].skipUntil
  /\ circuitBreakers[ev.sym].errors = ev.logged[1].errors + 1
  /\ circuitBreakers[ev.sym].skipUntil = now + CooldownMinutes

\* C38: in every reachable state the state file holds at most MaxPositions
\* positions, however the trades of the fast and the slow cycle interleave.
C38_AtMostFivePositions ==
  disk.file = "json" => Len(disk.data.positions) <= MaxPositions

\* C39: running is true exactly when the fast timer is registered and exactly
\* when the slow timer is registered; a timer is registered only by a step
\* that starts a stopped scheduler with no timer registered, so there is never
\* more than one of either; start() on a running scheduler and stop() on a
\* stopped one leave the flag, the timers, the cycles in flight and the state
\* file as they are.
C39_RunningIffTimers ==
  /\ [](/\ running <=> intervalId
        /\ running <=> portfolioIntervalId)
  /\ [][/\ ((intervalId' /\ ~intervalId) \/ (portfolioIntervalId' /\ ~portfolioIntervalId)
             \/ (ev'.op = "start" /\ ev'.result = "started"))
            => (/\ ~running /\ ~intervalId /\ ~portfolioIntervalId
                /\ running' /\ intervalId' /\ portfolioIntervalId')
        /\ ((ev'.op = "start" /\ ev'.by = "scheduler" /\ running)
            \/ (ev'.op = "stop" /\ ev'.by = "scheduler" /\ ~running))
            => UNCHANGED <<running, intervalId, portfolioIntervalId, loops, pms, disk,
                           circuitBreakers>>]_vars

\* start() was called on a running scheduler: both timers are registered and
\* the call changed nothing.
C39_Witness ==
  /\ ev.op = "start"
  /\ ev.by = "scheduler"
  /\ ev.result = "noop"
  /\ running
  /\ intervalId
  /\ portfolioIntervalId

\* C40: the circuit breaker never suppresses a symbol forever: when a held
\* symbol's breaker has tripped and its skipUntil has passed, with the
\* scheduler running and neither the emergency stop nor the daily-loss gate
\* active, a fast round eventually begins the symbol's evaluation (or the
\* symbol is no longer held, the scheduler no longer running, or one of the
\* two gates has become active).
C40_BreakerNeverSuppressesForever ==
  \A y \in Symbols :
    (/\ running
     /\ y \in symbolsOf(loadState(disk, today).positions)
     /\ circuitBreakers[y].errors >= BreakerThreshold
     /\ now >= circuitBreakers[y].skipUntil
     /\ evaluatePairGate(loadState(disk, today), circuitBreakers[y], now) = "pass"
     /\ \A l \in DOMAIN loops : loops[l].pc = "idle" \/ loops[l].pair # y)
    ~> (\/ \E l \in DOMAIN loops : loops[l].pc = "decide" /\ loops[l].pair = y
        \/ ~running
        \/ y \notin symbolsOf(loadState(disk, today).positions)
        \/ evaluatePairGate(loadState(disk, today), circuitBreakers[y], now)
             \in {"emergencyStop", "dailyLoss"})
====
